---- MODULE Spec2Model ----
(***************************************************************************)
(* State-machine model of the epidemic simulation: the population graph   *)
(* (src/graph.py), the per-timestep compartment machine (src/model.py)    *)
(* and the multi-run aggregator (src/simulation.py).                      *)
(*                                                                         *)
(* Probabilities, weights and the values of random.random() are integers  *)
(* in hundredths (100 = 1.0).  A draw lies in [0,1), so it is 0..99.      *)
(***************************************************************************)
EXTENDS Integers, Sequences, FiniteSets, TLC

\* Largest number of runs n handed to run_multiple.
MaxRuns == 3

\* Model.STATES, in the iteration order of the dict.
STATES == <<"S", "E", "A", "I", "H", "D", "R">>

StateSet == {STATES[i] : i \in 1..Len(STATES)}

\* Python's ordering of the one-letter state names (min() over dict keys).
StrRank(s) ==
  CASE s = "A" -> 1 [] s = "D" -> 2 [] s = "E" -> 3 [] s = "H" -> 4
    [] s = "I" -> 5 [] s = "R" -> 6 [] s = "S" -> 7

\* Values random.random() takes in the model: the least value a draw can
\* have, one in the middle and one at the top of [0,1).
DrawValues == {0, 50, 99}

Abs(x) == IF x < 0 THEN 0 - x ELSE x

Max2(a, b) == IF a >= b THEN a ELSE b

RECURSIVE SumSeq(_)
SumSeq(s) == IF s = <<>> THEN 0 ELSE Head(s) + SumSeq(Tail(s))

\* ---------------------------------------------------------------------
\* Inputs: the JSON files the Simulation is constructed from.
\* ---------------------------------------------------------------------

\* infection_data["state_transitions"]: source state -> targets in dict
\* order, each with its probability per age group.  DetTable is the table of
\* tests/unit/test_model.py; MixTable branches and, for group "b", leaves
\* the targets of H two hundredths short of 1, so that the highest draw
\* is reached by no cumulative sum.
DetTable ==
  [E |-> <<[target |-> "A", prob |-> [a |-> 100, b |-> 100]]>>,
   A |-> <<[target |-> "I", prob |-> [a |-> 100, b |-> 100]]>>,
   I |-> <<[target |-> "H", prob |-> [a |-> 100, b |-> 100]]>>,
   H |-> <<[target |-> "R", prob |-> [a |-> 100, b |-> 100]]>>]

MixTable ==
  [E |-> <<[target |-> "A", prob |-> [a |-> 100, b |-> 100]]>>,
   A |-> <<[target |-> "I", prob |-> [a |-> 50, b |-> 100]],
           [target |-> "R", prob |-> [a |-> 50, b |-> 0]]>>,
   I |-> <<[target |-> "H", prob |-> [a |-> 100, b |-> 50]],
           [target |-> "I", prob |-> [a |-> 0, b |-> 50]]>>,
   H |-> <<[target |-> "R", prob |-> [a |-> 50, b |-> 50]],
           [target |-> "D", prob |-> [a |-> 50, b |-> 48]]>>]

\* A table in which every stage of the disease may last: each state has
\* itself and the next stage as targets, with equal probability.
DwellTable ==
  [E |-> <<[target |-> "E", prob |-> [a |-> 50, b |-> 50]],
           [target |-> "A", prob |-> [a |-> 50, b |-> 50]]>>,
   A |-> <<[target |-> "A", prob |-> [a |-> 50, b |-> 50]],
           [target |-> "I", prob |-> [a |-> 50, b |-> 50]]>>,
   I |-> <<[target |-> "I", prob |-> [a |-> 50, b |-> 50]],
           [target |-> "H", prob |-> [a |-> 50, b |-> 50]]>>,
   H |-> <<[target |-> "H", prob |-> [a |-> 50, b |-> 50]],
           [target |-> "R", prob |-> [a |-> 50, b |-> 50]]>>]

\* ---------------------------------------------------------------------
\* Graph construction (Graph._set_navigable_small_world_graph)
\* ---------------------------------------------------------------------

\* math.ceil(math.sqrt(n))
CeilSqrt(n) == CHOOSE r \in 0..n : r * r >= n /\ (r = 0 \/ (r - 1) * (r - 1) < n)

\* The grid cells of nx.navigable_small_world_graph(L, ..., dim=2), in the
\* order of itertools.product(range(L), repeat=2).
GridCell(k, L) == <<k \div L, k % L>>

\* networkx joins two cells by a short link when their lattice (sum of
\* coordinate differences) distance is at most p.
LatticeDist(c, d) == Abs(c[1] - d[1]) + Abs(c[2] - d[2])

\* Variant of CalculateChebyshevDist: the coordinate differences are added
\* (the lattice distance) instead of taking the larger.
CalculateManhattanDist(location_a, location_b) ==
  Abs(location_a[1] - location_b[1]) + Abs(location_a[2] - location_b[2])

\* Graph._calculate_chebyshev_dist
CalculateChebyshevDist(location_a, location_b) ==
  Max2(Abs(location_a[1] - location_b[1]), Abs(location_a[2] - location_b[2]))

\* Variant of KeptCells: the extra nodes are not removed.
RECURSIVE KeptCellsAll(_, _, _)
KeptCellsAll(k, L, extra) ==
  IF k >= L * L THEN <<>>
  ELSE <<GridCell(k, L)>> \o KeptCellsAll(k + 1, L, extra)

\* The cells kept after remove_nodes_from(extra_nodes), in node order; the
\* position in this sequence is the integer label given by
\* convert_node_labels_to_integers.
RECURSIVE KeptCells(_, _, _)
KeptCells(k, L, extra) ==
  IF k >= L * L THEN <<>>
  ELSE IF k \in extra THEN KeptCells(k + 1, L, extra)
       ELSE <<GridCell(k, L)>> \o KeptCells(k + 1, L, extra)

\* The labelled, undirected, loop-free edge set: short links between kept
\* cells plus the long links drawn by networkx (a set of index pairs).
GraphEdges(loc, short_connection_diameter, long_links) ==
  LET N == Len(loc) IN
  { e \in SUBSET (0..N-1) :
      /\ Cardinality(e) = 2
      /\ \E i, j \in e :
           /\ i # j
           /\ \/ LatticeDist(loc[i + 1], loc[j + 1]) <= short_connection_diameter
              \/ <<loc[i + 1], loc[j + 1]>> \in long_links }

\* Graph._set_close_nodes_arr
SetCloseNodesArr(loc, threshold) ==
  LET N == Len(loc) IN
  [node \in 0..N-1 |->
    [other_node \in 0..N-1 |->
      IF node # other_node
         /\ CalculateChebyshevDist(loc[other_node + 1], loc[node + 1]) <= threshold
      THEN 1 ELSE 0]]

\* Variant of SetAges: every node draws its label on its own
\* (random.choices over the groups), so the counts are not kept.
SetAgesAnyLabels(age_structure) ==
  LET N == SumSeq([i \in 1..Len(age_structure) |-> age_structure[i].n])
      groups == {age_structure[i].group : i \in 1..Len(age_structure)}
  IN [0..N-1 -> groups]

\* Graph._set_ages: every list with the counts of the age structure is a
\* possible outcome of random.shuffle.
SetAges(age_structure) ==
  LET N == SumSeq([i \in 1..Len(age_structure) |-> age_structure[i].n])
      groups == {age_structure[i].group : i \in 1..Len(age_structure)}
      count(g) == SumSeq([i \in 1..Len(age_structure) |->
                           IF age_structure[i].group = g THEN age_structure[i].n ELSE 0])
  IN { f \in [0..N-1 -> groups] :
         \A g \in groups : Cardinality({i \in 0..N-1 : f[i] = g}) = count(g) }

\* ---------------------------------------------------------------------
\* State
\* ---------------------------------------------------------------------

VARIABLES
  \* Params
  age_structure, population_size, generic_infection, state_transitions,
  behaviours, behaviours_dict,
  \* Graph
  graph_config, time_horizon, num_infected, infection_rate,
  location,         \* node i has grid location location[i + 1]
  age_group,        \* node attribute "age_group"
  lattice,          \* the edges of the graph as constructed, with attributes
  edges,            \* graph.graph's edges: edge -> [weight, interaction_edge]
  visit_days,       \* node attribute per behaviour: node -> name -> days
  close_nodes_arr,
  \* Model
  states_dict, curr_time,
  luck,             \* the draws of this timestep's infection pass, per pair
  max_sum,          \* the draw of the latest _choose_from_distrib call, or None
  \* Simulation.run_multiple
  n, all_results, averaged, timestep,
  \* Simulation
  new_graph_per_run, load_graph_filename,
  graph_file,       \* the Graph object pickled in the graph file, or None
  error,            \* the message of the exception raised, or None
  \* the number of times a node has performed a behaviour since its visit
  \* days were last sampled: node -> name -> count
  visits_done,
  \* the transient edges the add-interactions pass of the run has put into
  \* the graph in the current timestep
  added,
  \* a second Model whose basic_simulation is under way while this one
  \* runs: the state of the run that is not at the processor, or None
  other_run,
  \* control: position in the script / run_multiple / basic_simulation, node
  \* being mapped
  pc, idx

paramVars == <<age_structure, population_size, generic_infection,
               state_transitions, behaviours>>

staticGraphVars == <<graph_config, time_horizon, num_infected, infection_rate,
                     location, age_group, lattice, close_nodes_arr>>

modelVars == <<states_dict, curr_time, luck, max_sum>>

aggVars == <<n, all_results, averaged, timestep>>

simVars == <<new_graph_per_run, load_graph_filename, graph_file, error, other_run>>

vars == <<paramVars, simVars, behaviours_dict, staticGraphVars, edges, visit_days,
          visits_done, added, modelVars, aggVars, pc, idx>>

\* list(self.graph.graph): the nodes, labelled 0..N-1
Nodes == 0..(Len(location) - 1)

\* self.graph.graph.neighbors(node)
Neighbors(node) == {m \in Nodes : {node, m} \in DOMAIN edges}

InteractionEdges == {e \in DOMAIN edges : edges[e].interaction_edge}

EmptyDict == <<>>

\* An attribute that may be None holds <<>> when it is None and <<v>> when
\* it is set to v.
None == <<>>

Some(v) == <<v>>

Get(o) == o[1]

\* ---------------------------------------------------------------------
\* Params._convert_behaviours_to_dict: behaviours is the list of behaviour
\* strings.  A string is held as the sequence of its pieces, the
\* underscores and the runs of characters between them ("party_7_1" is
\* <<"party", "_", "7", "_", "1">>).  The dict keeps the insertion order of
\* the names and a later string replaces the value of an earlier one with
\* the same name.
\* ---------------------------------------------------------------------

\* a decimal field as int() reads it
ParseInt(field) ==
  CASE field = <<"0">> -> 0 [] field = <<"1">> -> 1 [] field = <<"2">> -> 2
    [] field = <<"3">> -> 3 [] field = <<"4">> -> 4 [] field = <<"5">> -> 5
    [] field = <<"6">> -> 6 [] field = <<"7">> -> 7

\* behaviour.split("_"): the fields between the underscores, from the
\* i-th piece on, field being the pieces read since the last underscore
RECURSIVE SplitFrom(_, _, _)
SplitFrom(str, i, field) ==
  IF i > Len(str) THEN <<field>>
  ELSE IF str[i] = "_" THEN <<field>> \o SplitFrom(str, i + 1, <<>>)
  ELSE SplitFrom(str, i + 1, Append(field, str[i]))

SplitUnderscore(str) == SplitFrom(str, 1, <<>>)

\* "_".join(fields)
RECURSIVE JoinUnderscore(_)
JoinUnderscore(fields) ==
  IF Len(fields) = 0 THEN <<>>
  ELSE IF Len(fields) = 1 THEN fields[1]
  ELSE fields[1] \o <<"_">> \o JoinUnderscore(Tail(fields))

\* Variant of BehaviourName: the name is the first field only.
BehaviourNameFirstField(splitted) == splitted[1]

\* "_".join(splitted[:-2])
BehaviourName(splitted) == JoinUnderscore(SubSeq(splitted, 1, Len(splitted) - 2))

RECURSIVE ConvertFrom(_, _, _)
ConvertFrom(bs, i, dict) ==
  IF i > Len(bs) THEN dict
  ELSE LET splitted == SplitUnderscore(bs[i])
           name == BehaviourName(splitted)
           entry == [name |-> name,
                     visits |-> ParseInt(splitted[Len(splitted) - 1]),
                     num_people |-> ParseInt(splitted[Len(splitted)])]
           at == {k \in 1..Len(dict) : dict[k].name = name}
       IN IF at = {} THEN ConvertFrom(bs, i + 1, Append(dict, entry))
          ELSE ConvertFrom(bs, i + 1,
                 [k \in 1..Len(dict) |-> IF k \in at THEN entry ELSE dict[k]])

ConvertBehavioursToDict(bs) == ConvertFrom(bs, 1, <<>>)

FoodShopping == <<"food", "_", "shopping">>

\* ---------------------------------------------------------------------
\* Graph: transient interaction edges
\* ---------------------------------------------------------------------

\* Variant of AddNewInteractionEdges: a new edge is not marked as an
\* interaction edge, so that the removal keeps it.
AddNewInteractionEdgesPermanent(E, new_edges, rate) ==
  [pair \in new_edges \ DOMAIN E |-> [weight |-> rate, interaction_edge |-> FALSE]] @@ E

\* Variant of AddNewInteractionEdges: a new interaction edge is given the
\* weight 1 instead of the infection rate.
AddNewInteractionEdgesFullWeight(E, new_edges, rate) ==
  [pair \in new_edges \ DOMAIN E |-> [weight |-> 100, interaction_edge |-> TRUE]] @@ E

\* Variant of AddNewInteractionEdges: has_edge is not asked, and add_edge
\* sets the attributes of an edge that exists already.
AddNewInteractionEdgesAlways(E, new_edges, rate) ==
  [pair \in new_edges |-> [weight |-> rate, interaction_edge |-> TRUE]] @@ E

\* Graph._add_new_interaction_edge, mapped over the new edges
RECURSIVE AddNewInteractionEdges(_, _, _)
AddNewInteractionEdges(E, new_edges, rate) ==
  IF new_edges = {} THEN E
  ELSE LET pair == CHOOSE e \in new_edges : TRUE
           E1 == IF pair \notin DOMAIN E
                 THEN (pair :> [weight |-> rate, interaction_edge |-> TRUE]) @@ E
                 ELSE E
       IN AddNewInteractionEdges(E1, new_edges \ {pair}, rate)

\* Variant of NewEdges: the group is joined as a clique whatever the
\* behaviour.
NewEdgesAlwaysClique(behaviour, node, new_group) ==
  {e \in SUBSET (new_group \cup {node}) : Cardinality(e) = 2}

\* Variant of NewEdges: the node is joined to each member of the group
\* whatever the behaviour.
NewEdgesAlwaysStar(behaviour, node, new_group) ==
  {{node, neighbour} : neighbour \in new_group}

\* the edges a sampled group stands for
NewEdges(behaviour, node, new_group) ==
  IF behaviour = FoodShopping
  THEN {{node, neighbour} : neighbour \in new_group}
  ELSE {e \in SUBSET (new_group \cup {node}) : Cardinality(e) = 2}

\* Variant of SetGroupInteractionEdges: a group size of 0 passes for "no
\* limit" and the whole pool is taken.
SetGroupInteractionEdgesZeroIsAll(E, behaviour, node, other_nodes, group_size) ==
  LET pool == IF behaviour = FoodShopping
              THEN {m \in Nodes : close_nodes_arr[node][m] # 0}
              ELSE other_nodes
      size == IF group_size # 0 /\ group_size <= Cardinality(pool) THEN group_size
              ELSE Cardinality(pool)
  IN { AddNewInteractionEdges(E, NewEdges(behaviour, node, new_group),
                              Get(infection_rate)) :
         new_group \in {g \in SUBSET pool : Cardinality(g) = size} }

\* Graph.set_group_interaction_edges: the graphs it can leave, one per
\* outcome of random.sample(other_nodes, k=size).
SetGroupInteractionEdges(E, behaviour, node, other_nodes, group_size) ==
  LET pool == IF behaviour = FoodShopping
              THEN {m \in Nodes : close_nodes_arr[node][m] # 0}
              ELSE other_nodes
      size == IF group_size <= Cardinality(pool) THEN group_size
              ELSE Cardinality(pool)
  IN { AddNewInteractionEdges(E, NewEdges(behaviour, node, new_group),
                              Get(infection_rate)) :
         new_group \in {g \in SUBSET pool : Cardinality(g) = size} }

\* Variant of RemoveGroupInteractionEdges: the attribute test never succeeds
\* and no edge is removed.
RemoveNoInteractionEdges(E) == E

\* Graph.remove_group_interaction_edges
RemoveGroupInteractionEdges(E) ==
  LET keep == {e \in DOMAIN E : ~E[e].interaction_edge}
  IN [e \in keep |-> E[e]]

\* ---------------------------------------------------------------------
\* Graph.create_graph and the Graph objects of Simulation
\* ---------------------------------------------------------------------

\* The long links networkx draws: every cell gets long_connection_diameter
\* draws of a target cell, so between one and that many distinct targets.
LongLinkOutcomes(L, q) ==
  LET cells == 0..(L * L - 1)
      targets == {t \in SUBSET cells : IF q = 0 THEN t = {}
                                       ELSE Cardinality(t) \in 1..q}
  IN { {<<GridCell(p[1], L), GridCell(p[2], L)>> :
          p \in {x \in cells \X cells : x[2] \in f[x[1]]}} :
         f \in [cells -> targets] }

\* Graph.create_graph: the Graph objects it can leave, one per outcome of
\* the random choices (extra nodes, long links, shuffle of the ages).
CreatedGraphs(config, T, k, age_str, rate) ==
  LET num_people == SumSeq([i \in 1..Len(age_str) |-> age_str[i].n])
      root_num_people == CeilSqrt(num_people)
      num_extra == root_num_people * root_num_people - num_people
  IN { LET loc == KeptCells(0, root_num_people, extra_nodes)
       IN [graph_config |-> config, time_horizon |-> T, num_infected |-> k,
           infection_rate |-> rate,
           location |-> loc,
           edges |-> [e \in GraphEdges(loc, config.params.short_connection_diameter,
                                       long_links) |->
                        [weight |-> Get(rate), interaction_edge |-> FALSE]],
           age_group |-> ages,
           close_nodes_arr |-> SetCloseNodesArr(loc, config.closeness_threshold)] :
         extra_nodes \in {x \in SUBSET (0..(root_num_people * root_num_people - 1)) :
                            Cardinality(x) = num_extra},
         long_links \in LongLinkOutcomes(root_num_people,
                                         config.params.long_connection_diameter),
         ages \in SetAges(age_str) }

\* self.graph = g, or the fields of self.graph set by create_graph: the
\* nodes of a new networkx graph carry no behaviour attribute
SetGraph(g) ==
  /\ graph_config' = g.graph_config
  /\ time_horizon' = g.time_horizon
  /\ num_infected' = g.num_infected
  /\ infection_rate' = g.infection_rate
  /\ location' = g.location
  /\ age_group' = g.age_group
  /\ lattice' = g.edges
  /\ edges' = g.edges
  /\ close_nodes_arr' = g.close_nodes_arr
  /\ visit_days' = [v \in 0..(Len(g.location) - 1) |-> EmptyDict]
  /\ visits_done' = [v \in 0..(Len(g.location) - 1) |-> EmptyDict]
  /\ added' = {}

\* Variant of CreateGraphMsg: the second test is an elif, so only the first
\* missing item is named.
CreateGraphMsgFirstOnly ==
  IF population_size = None THEN <<"the community has not been set">>
  ELSE IF generic_infection = None THEN <<"the infection data has not been set">>
  ELSE <<>>

\* Simulation.create_graph: the list msg
CreateGraphMsg ==
  (IF population_size = None THEN <<"the community has not been set">> ELSE <<>>)
  \o (IF generic_infection = None THEN <<"the infection data has not been set">> ELSE <<>>)

\* ", ".join(msg), as the sequence of its pieces
RECURSIVE JoinComma(_)
JoinComma(msg) ==
  IF Len(msg) = 0 THEN <<>>
  ELSE IF Len(msg) = 1 THEN <<msg[1]>>
  ELSE <<msg[1], ", ">> \o JoinComma(Tail(msg))

\* "Cannot create the graph: {}".format(", ".join(msg))
CreateGraphError == <<"Cannot create the graph: ">> \o JoinComma(CreateGraphMsg)

\* Variant of ValidGraph: the infection rate of the loaded graph is not
\* compared.
ValidGraphWithoutRate(loaded_graph) ==
  /\ loaded_graph.graph_config = graph_config
  /\ loaded_graph.time_horizon = time_horizon
  /\ loaded_graph.num_infected = num_infected
  /\ Some(Len(loaded_graph.location)) = population_size

\* Simulation.load_graph_from_file: the five comparisons
ValidGraph(loaded_graph) ==
  LET valid_config == loaded_graph.graph_config = graph_config
      valid_time == loaded_graph.time_horizon = time_horizon
      valid_infected == loaded_graph.num_infected = num_infected
      valid_population == Some(Len(loaded_graph.location)) = population_size
      valid_infection_rate == loaded_graph.infection_rate = generic_infection
  IN valid_config /\ valid_time /\ valid_infected /\ valid_population
     /\ valid_infection_rate

GraphMismatch == <<"The graph to be loaded does not adhere to the graph configuration">>

\* ---------------------------------------------------------------------
\* Model
\* ---------------------------------------------------------------------

\* The outcomes of random.sample(range(7), k=visits) for every behaviour.
RECURSIVE SampleVisitDaysFrom(_, _)
SampleVisitDaysFrom(bd, i) ==
  IF i > Len(bd) THEN {EmptyDict}
  ELSE { (bd[i].name :> chosen_days) @@ rest :
           chosen_days \in {d \in SUBSET (0..6) : Cardinality(d) = bd[i].visits},
           rest \in SampleVisitDaysFrom(bd, i + 1) }

\* Variant of SampleVisitDays: the days are drawn with replacement
\* (random.choices), so fewer than visits distinct days may come out.
RECURSIVE SampleVisitDaysWithRepeatsFrom(_, _)
SampleVisitDaysWithRepeatsFrom(bd, i) ==
  IF i > Len(bd) THEN {EmptyDict}
  ELSE { (bd[i].name :> chosen_days) @@ rest :
           chosen_days \in {d \in SUBSET (0..6) :
                              /\ Cardinality(d) <= bd[i].visits
                              /\ bd[i].visits > 0 => d # {}},
           rest \in SampleVisitDaysWithRepeatsFrom(bd, i + 1) }

SampleVisitDaysWithRepeats(bd) == SampleVisitDaysWithRepeatsFrom(bd, 1)

SampleVisitDays(bd) == SampleVisitDaysFrom(bd, 1)

\* weekday in self.graph.graph.nodes[node][behaviour]["visit_days"]
PerformsToday(behaviour, days) == (curr_time % 7) \in days[behaviour]

\* "do the interactions" loop of Model._add_interactions: the graphs left
\* after the behaviours from the i-th on have been performed
RECURSIVE DoInteractions(_, _, _, _, _)
DoInteractions(E, bd, i, node, days) ==
  IF i > Len(bd) THEN {E}
  ELSE IF PerformsToday(bd[i].name, days)
       THEN UNION { DoInteractions(E1, bd, i + 1, node, days) :
                      E1 \in SetGroupInteractionEdges(E, bd[i].name, node,
                                                     Nodes \ {node},
                                                     bd[i].num_people) }
       ELSE DoInteractions(E, bd, i + 1, node, days)

\* Variant of ChooseFrom: when no bucket is reached, max() of the keys.
ChooseFromFallbackLargest(age, distrib, draw, i, curr_sum) ==
  LET reached == {k \in i..Len(distrib) :
                    draw <= curr_sum + SumSeq([j \in 1..(k - i + 1) |->
                                                 distrib[i + j - 1].prob[age]])}
      targets == {distrib[k].target : k \in 1..Len(distrib)}
  IN IF reached = {}
     THEN CHOOSE v \in targets : \A w \in targets : StrRank(v) >= StrRank(w)
     ELSE distrib[CHOOSE k \in reached : \A j \in reached : k <= j].target

\* Model._choose_from_distrib: cumulative sum against the draw max_sum;
\* when no bucket is reached, min() of the keys.
RECURSIVE ChooseFrom(_, _, _, _, _)
ChooseFrom(age, distrib, draw, i, curr_sum) ==
  IF i > Len(distrib)
  THEN LET targets == {distrib[k].target : k \in 1..Len(distrib)}
       IN CHOOSE v \in targets : \A w \in targets : StrRank(v) <= StrRank(w)
  ELSE LET s == curr_sum + distrib[i].prob[age]
       IN IF draw <= s THEN distrib[i].target
          ELSE ChooseFrom(age, distrib, draw, i + 1, s)

\* Variant of ChooseFromDistrib: the draw is compared with the probability
\* of each target, not with the running sum.
ChooseFromDistribNotCumulative(age, distrib, draw) ==
  LET hit == {k \in 1..Len(distrib) : draw <= distrib[k].prob[age]}
  IN IF hit = {} THEN ChooseFrom(age, distrib, draw, Len(distrib) + 1, 0)
     ELSE distrib[CHOOSE k \in hit : \A j \in hit : k <= j].target

ChooseFromDistrib(age, distrib, draw) == ChooseFrom(age, distrib, draw, 1, 0)

\* Model._get_state_counts: a Counter, 0 for a state no node holds
GetStateCounts(sd, time) ==
  [state \in StateSet |-> Cardinality({v \in DOMAIN sd[time] : sd[time][v] = state})]

\* Variant of ReportSteps: the range starts at 0, range(0, time_horizon + 1, 7).
ReportStepsFromZero(T) == [i \in 1..(T \div 7 + 1) |-> 7 * (i - 1)]

\* Variant of ReportSteps: the stop of the range is time_horizon,
\* range(1, time_horizon, 7).
ReportStepsExclusive(T) == [i \in 1..((T + 5) \div 7) |-> 1 + 7 * (i - 1)]

\* range(1, time_horizon + 1, 7)
ReportSteps(T) == [i \in 1..((T + 6) \div 7) |-> 1 + 7 * (i - 1)]

\* Model.get_results
GetResults(sd, T) ==
  [state \in StateSet |->
     [i \in 1..Len(ReportSteps(T)) |-> GetStateCounts(sd, ReportSteps(T)[i])[state]]]

\* Variant of SampleInfected: k draws with replacement (random.choices), so
\* the infected may be fewer than k.
SampleInfectedWithRepeats(nodes, k) ==
  {s \in SUBSET nodes : Cardinality(s) <= k /\ (k > 0 => s # {})}

\* random.sample(list(self.graph.graph), k=self.graph.num_infected): the
\* sets of k distinct nodes
SampleInfected(nodes, k) == {s \in SUBSET nodes : Cardinality(s) = k}

\* Variant of MakeStatesDict: the timeline of the run before is kept and
\* only its timestep 0 is set again.
MakeStatesDictReused(nodes, T, infected) ==
  LET zero == [v \in nodes |-> IF v \in infected THEN "I" ELSE "S"]
  IN IF DOMAIN states_dict = 0..T
     THEN [states_dict EXCEPT ![0] = zero]
     ELSE [t \in 0..T |-> IF t = 0 THEN zero ELSE EmptyDict]

\* Model._make_states_dict followed by the seeding of the infected
MakeStatesDict(nodes, T, infected) ==
  [t \in 0..T |->
     IF t = 0 THEN [v \in nodes |-> IF v \in infected THEN "I" ELSE "S"]
     ELSE EmptyDict]

\* Model.basic_simulation up to the timestep loop, on the graph g
BasicSimulation(g) ==
  /\ behaviours_dict' = ConvertBehavioursToDict(behaviours)
  /\ \E infected \in SampleInfected(0..(Len(g.location) - 1), g.num_infected) :
       states_dict' = MakeStatesDict(0..(Len(g.location) - 1), g.time_horizon, infected)
  /\ curr_time' = 0
  /\ idx' = 0
  /\ pc' = "add_interactions"

\* Simulation.run_single up to the timestep loop of basic_simulation: with
\* new_graph_per_run the graph is first loaded again or created again
RunSingle ==
  /\ pc = "run_single"
  /\ IF ~new_graph_per_run
     THEN /\ BasicSimulation([location |-> location, num_infected |-> num_infected,
                              time_horizon |-> time_horizon])
          /\ UNCHANGED <<staticGraphVars, edges, visit_days, visits_done, added, error>>
     ELSE IF load_graph_filename # ""
     THEN IF ~ValidGraph(Get(graph_file))
          THEN /\ error' = Some(GraphMismatch)
               /\ pc' = "error"
               /\ UNCHANGED <<staticGraphVars, edges, visit_days, visits_done, added,
                              behaviours_dict, states_dict, curr_time, idx>>
          ELSE /\ SetGraph(Get(graph_file))
               /\ BasicSimulation(Get(graph_file))
               /\ UNCHANGED error
     ELSE IF CreateGraphMsg # <<>>
          THEN /\ error' = Some(CreateGraphError)
               /\ pc' = "error"
               /\ UNCHANGED <<staticGraphVars, edges, visit_days, visits_done, added,
                              behaviours_dict, states_dict, curr_time, idx>>
          ELSE /\ \E g \in CreatedGraphs(graph_config, time_horizon, num_infected,
                                         age_structure, generic_infection) :
                    SetGraph(g) /\ BasicSimulation(g)
               /\ UNCHANGED error
  /\ UNCHANGED <<paramVars, other_run, new_graph_per_run, load_graph_filename, graph_file,
                 luck, max_sum, aggVars>>

\* Variant of NextPass: infection is mapped before progression.
NextPassInfectionFirst(p) ==
  CASE p = "add_interactions" -> "do_infection"
    [] p = "do_infection" -> "do_progression"
    [] p = "do_progression" -> "remove_interactions"

\* the passes of one timestep, in the order of the loop body
NextPass(p) ==
  CASE p = "add_interactions" -> "do_progression"
    [] p = "do_progression" -> "do_infection"
    [] p = "do_infection" -> "remove_interactions"

\* list(map(handler, nodes)): advance over the nodes; after the last node
\* the next pass starts
NextNode ==
  IF idx + 1 < Len(location)
  THEN idx' = idx + 1 /\ pc' = pc
  ELSE idx' = 0 /\ pc' = NextPass(pc)

\* Model._add_interactions(node), node = idx; visits_done counts the calls
\* of set_group_interaction_edges since the node's visit days were sampled
AddInteractions ==
  /\ pc = "add_interactions"
  /\ \E days \in (IF curr_time % 7 = 0 THEN SampleVisitDays(behaviours_dict)
                  ELSE {visit_days[idx]}) :
       /\ visit_days' = [visit_days EXCEPT ![idx] = days]
       /\ visits_done' =
            [visits_done EXCEPT ![idx] =
               [name \in DOMAIN days |->
                  (IF curr_time % 7 = 0 THEN 0 ELSE visits_done[idx][name])
                  + (IF PerformsToday(name, days) THEN 1 ELSE 0)]]
       /\ \E E1 \in DoInteractions(edges, behaviours_dict, 1, idx, days) :
            /\ edges' = E1
            /\ added' = added \cup (DOMAIN E1 \ DOMAIN edges)
  /\ NextNode
  /\ UNCHANGED <<paramVars, simVars, behaviours_dict, staticGraphVars, modelVars, aggVars>>

\* Variant of Progressed: the else branch is missing, so a node in R, D or
\* S is not copied forward.
ProgressedWithoutCopy(sd, time, node, age, draw) ==
  LET state == sd[time][node]
      next_time == time + 1
  IN IF state \notin {"R", "D", "S"}
     THEN [sd EXCEPT ![next_time] =
             (node :> ChooseFromDistrib(age, state_transitions[state], draw)) @@ @]
     ELSE sd

\* Variant of Progressed: a node in S is left to the infection pass and
\* not copied forward.
ProgressedSkipsSusceptible(sd, time, node, age, draw) ==
  LET state == sd[time][node]
      next_time == time + 1
  IN IF state \notin {"R", "D", "S"}
     THEN [sd EXCEPT ![next_time] =
             (node :> ChooseFromDistrib(age, state_transitions[state], draw)) @@ @]
     ELSE IF state = "S" THEN sd
     ELSE [sd EXCEPT ![next_time] = (node :> state) @@ @]

\* Variant of Progressed: a recovered node becomes susceptible again.
ProgressedImmunityLost(sd, time, node, age, draw) ==
  LET state == sd[time][node]
      next_time == time + 1
  IN IF state \notin {"R", "D", "S"}
     THEN [sd EXCEPT ![next_time] =
             (node :> ChooseFromDistrib(age, state_transitions[state], draw)) @@ @]
     ELSE [sd EXCEPT ![next_time] = (node :> IF state = "R" THEN "S" ELSE state) @@ @]

\* Variant of Progressed: H is listed with the states that stay the same.
ProgressedHospitalStays(sd, time, node, age, draw) ==
  LET state == sd[time][node]
      next_time == time + 1
  IN IF state \notin {"R", "D", "S", "H"}
     THEN [sd EXCEPT ![next_time] =
             (node :> ChooseFromDistrib(age, state_transitions[state], draw)) @@ @]
     ELSE [sd EXCEPT ![next_time] = (node :> state) @@ @]

\* The timeline after Model._do_progression(node), draw being the value of
\* random.random() if _choose_from_distrib is called.
Progressed(sd, time, node, age, draw) ==
  LET state == sd[time][node]
      next_time == time + 1
  IN IF state \notin {"R", "D", "S"}
     THEN [sd EXCEPT ![next_time] =
             (node :> ChooseFromDistrib(age, state_transitions[state], draw)) @@ @]
     ELSE [sd EXCEPT ![next_time] = (node :> state) @@ @]

\* Model._do_progression(node), node = idx
DoProgression ==
  /\ pc = "do_progression"
  /\ IF states_dict[curr_time][idx] \notin {"R", "D", "S"}
     THEN \E draw \in DrawValues :
            /\ states_dict' = Progressed(states_dict, curr_time, idx, age_group[idx], draw)
            /\ max_sum' = Some(draw)
     ELSE /\ states_dict' = Progressed(states_dict, curr_time, idx, age_group[idx], 0)
          /\ max_sum' = None
  /\ NextNode
  /\ UNCHANGED <<paramVars, simVars, behaviours_dict, staticGraphVars, edges, visit_days, visits_done, added,
                 curr_time, luck, aggVars>>

\* Variant of InfectNeighbours: a draw that fails writes the neighbour back
\* to S.
InfectNeighboursReverts(sd, time, node, nbrs, lucks) ==
  LET drawn == {nb \in nbrs : sd[time][nb] = "S"}
  IN [sd EXCEPT ![time + 1] =
        [nb \in drawn |-> IF lucks[nb] <= edges[{node, nb}].weight
                          THEN "E" ELSE "S"] @@ @]

\* Variant of InfectNeighbours: the state of the neighbour is not tested.
InfectNeighboursAnyState(sd, time, node, nbrs, lucks) ==
  LET exposed == {nb \in nbrs : lucks[nb] <= edges[{node, nb}].weight}
  IN [sd EXCEPT ![time + 1] = [nb \in exposed |-> "E"] @@ @]

\* Variant of InfectNeighbours: the comparison of the draw is reversed.
InfectNeighboursReversed(sd, time, node, nbrs, lucks) ==
  LET exposed == {nb \in nbrs : /\ sd[time][nb] = "S"
                                /\ lucks[nb] >= edges[{node, nb}].weight}
  IN [sd EXCEPT ![time + 1] = [nb \in exposed |-> "E"] @@ @]

\* Variant of InfectNeighbours: the comparison of the draw is strict.
InfectNeighboursStrict(sd, time, node, nbrs, lucks) ==
  LET exposed == {nb \in nbrs : /\ sd[time][nb] = "S"
                                /\ lucks[nb] < edges[{node, nb}].weight}
  IN [sd EXCEPT ![time + 1] = [nb \in exposed |-> "E"] @@ @]

\* Model._infect_neighbours(node, neighbour) mapped over the neighbours:
\* the timeline after the writes.  lucks[neighbour] is the value
\* random.random() returns if it is called for that neighbour.
InfectNeighbours(sd, time, node, nbrs, lucks) ==
  LET exposed == {nb \in nbrs : /\ sd[time][nb] = "S"
                                /\ lucks[nb] <= edges[{node, nb}].weight}
  IN [sd EXCEPT ![time + 1] = [nb \in exposed |-> "E"] @@ @]

\* Variant of DoInfection: a recovered node still spreads the infection.
DoInfectionRecoveredSpreads ==
  /\ pc = "do_infection"
  /\ LET state == states_dict[curr_time][idx]
         drawn == {nb \in Neighbors(idx) : states_dict[curr_time][nb] = "S"}
     IN IF state = "I" \/ state = "A" \/ state = "R"
        THEN \E lucks \in [Neighbors(idx) -> DrawValues] :
               /\ states_dict' = InfectNeighbours(states_dict, curr_time, idx,
                                                  Neighbors(idx), lucks)
               /\ luck' = [p \in {<<idx, nb>> : nb \in drawn} |-> lucks[p[2]]] @@ luck
        ELSE UNCHANGED <<states_dict, luck>>
  /\ max_sum' = None
  /\ NextNode
  /\ UNCHANGED <<paramVars, simVars, behaviours_dict, staticGraphVars, edges, visit_days, visits_done, added,
                 curr_time, aggVars>>

\* Variant of DoInfection: the state of the node is read from the entry of
\* the next timestep, which the progression pass has written.
DoInfectionReadsNext ==
  /\ pc = "do_infection"
  /\ LET state == states_dict[curr_time + 1][idx]
         drawn == {nb \in Neighbors(idx) : states_dict[curr_time][nb] = "S"}
     IN IF state = "I" \/ state = "A"
        THEN \E lucks \in [Neighbors(idx) -> DrawValues] :
               /\ states_dict' = InfectNeighbours(states_dict, curr_time, idx,
                                                  Neighbors(idx), lucks)
               /\ luck' = [p \in {<<idx, nb>> : nb \in drawn} |-> lucks[p[2]]] @@ luck
        ELSE UNCHANGED <<states_dict, luck>>
  /\ max_sum' = None
  /\ NextNode
  /\ UNCHANGED <<paramVars, simVars, behaviours_dict, staticGraphVars, edges, visit_days, visits_done, added,
                 curr_time, aggVars>>

\* Model._do_infection(node), node = idx; a draw is made for the
\* neighbours that are S, and luck records those draws
DoInfection ==
  /\ pc = "do_infection"
  /\ LET state == states_dict[curr_time][idx]
         drawn == {nb \in Neighbors(idx) : states_dict[curr_time][nb] = "S"}
     IN IF state = "I" \/ state = "A"
        THEN \E lucks \in [Neighbors(idx) -> DrawValues] :
               /\ states_dict' = InfectNeighbours(states_dict, curr_time, idx,
                                                  Neighbors(idx), lucks)
               /\ luck' = [p \in {<<idx, nb>> : nb \in drawn} |-> lucks[p[2]]] @@ luck
        ELSE UNCHANGED <<states_dict, luck>>
  /\ max_sum' = None
  /\ NextNode
  /\ UNCHANGED <<paramVars, simVars, behaviours_dict, staticGraphVars, edges, visit_days, visits_done, added,
                 curr_time, aggVars>>

\* Variant of RemoveInteractions: the loop over time is range(time_horizon
\* - 1) when the horizon is more than one timestep.
RemoveInteractionsSkipsLast ==
  /\ pc = "remove_interactions"
  /\ edges' = RemoveGroupInteractionEdges(edges)
  /\ luck' = EmptyDict
  /\ added' = {}
  /\ IF curr_time + 2 < time_horizon
     THEN curr_time' = curr_time + 1 /\ pc' = "add_interactions"
     ELSE curr_time' = curr_time /\ pc' = "get_results"
  /\ UNCHANGED <<paramVars, simVars, behaviours_dict, staticGraphVars, visit_days, visits_done,
                 states_dict, max_sum, aggVars, idx>>

\* Model._remove_interactions, then the next pass of the loop over time or
\* its end
RemoveInteractions ==
  /\ pc = "remove_interactions"
  /\ edges' = RemoveGroupInteractionEdges(edges)
  /\ luck' = EmptyDict
  /\ added' = {}
  /\ IF curr_time + 1 < time_horizon
     THEN curr_time' = curr_time + 1 /\ pc' = "add_interactions"
     ELSE curr_time' = curr_time /\ pc' = "get_results"
  /\ UNCHANGED <<paramVars, simVars, behaviours_dict, staticGraphVars, visit_days, visits_done,
                 states_dict, max_sum, aggVars, idx>>

\* ---------------------------------------------------------------------
\* Simulation.run_single / run_multiple
\* ---------------------------------------------------------------------

\* Model.get_results as called at the end of run_single; the list
\* comprehension of run_multiple then starts the next run or ends
CollectResults ==
  /\ pc = "get_results"
  /\ all_results' = Append(all_results, GetResults(states_dict, time_horizon))
  /\ pc' = IF Len(all_results) + 1 < n THEN "run_single" ELSE "average"
  /\ UNCHANGED <<paramVars, simVars, behaviours_dict, staticGraphVars, edges, visit_days, visits_done, added,
                 modelVars, n, averaged, timestep, idx>>

\* Variant of RoundMean: int() of the mean without np.round.
FloorMean(total, count) == total \div count

\* int(np.round(total / count)): numpy rounds halves to the even integer
RoundMean(total, count) ==
  LET q == total \div count
      r == total % count
  IN IF 2 * r < count THEN q
     ELSE IF 2 * r > count THEN q + 1
     ELSE IF q % 2 = 0 THEN q ELSE q + 1

\* zip(*state_lists): as long as the shortest list
ZipLen(state_lists) ==
  IF Len(state_lists) = 0 THEN 0
  ELSE CHOOSE m \in {Len(state_lists[k]) : k \in 1..Len(state_lists)} :
         \A k \in 1..Len(state_lists) : m <= Len(state_lists[k])

\* the "averaged" dict of run_multiple, before the repair loop
Averaged(results) ==
  [state \in StateSet |->
     LET state_lists == [k \in 1..Len(results) |-> results[k][state]]
     IN [i \in 1..ZipLen(state_lists) |->
           RoundMean(SumSeq([k \in 1..Len(state_lists) |-> state_lists[k][i]]),
                     Len(state_lists))]]

\* run_multiple: "get averaged results"
Average ==
  /\ pc = "average"
  /\ averaged' = Averaged(all_results)
  /\ timestep' = 0
  /\ pc' = "repair"
  /\ UNCHANGED <<paramVars, simVars, behaviours_dict, staticGraphVars, edges, visit_days, visits_done, added,
                 modelVars, n, all_results, idx>>

\* sum([averaged[state][timestep] for state in Model.STATES])
Total(avg, i) == SumSeq([k \in 1..Len(STATES) |-> avg[STATES[k]][i]])

\* Variant of BiggestState: the last state that holds the largest count.
LastBiggestState(avg, i) ==
  LET last == CHOOSE k \in 1..Len(STATES) :
                /\ \A j \in 1..Len(STATES) : avg[STATES[j]][i] <= avg[STATES[k]][i]
                /\ \A j \in (k + 1)..Len(STATES) : avg[STATES[j]][i] < avg[STATES[k]][i]
  IN STATES[last]

\* max(states_at_timestep, key=states_at_timestep.get): the first state, in
\* dict order, that holds the largest count
BiggestState(avg, i) ==
  LET first == CHOOSE k \in 1..Len(STATES) :
                 /\ \A j \in 1..Len(STATES) : avg[STATES[j]][i] <= avg[STATES[k]][i]
                 /\ \A j \in 1..(k - 1) : avg[STATES[j]][i] < avg[STATES[k]][i]
  IN STATES[first]

\* one pass of the repair loop over range(time_horizon // 7)
RepairStep(avg, i, pop) ==
  IF Total(avg, i) # pop
  THEN [avg EXCEPT ![BiggestState(avg, i)][i] = @ + (pop - Total(avg, i))]
  ELSE avg

Repair ==
  /\ pc = "repair"
  /\ timestep < time_horizon \div 7
  /\ averaged' = RepairStep(averaged, timestep + 1, Get(population_size))
  /\ timestep' = timestep + 1
  /\ UNCHANGED <<paramVars, simVars, behaviours_dict, staticGraphVars, edges, visit_days, visits_done, added,
                 modelVars, n, all_results, pc, idx>>

\* run_multiple: return averaged
ReturnAveraged ==
  /\ pc = "repair"
  /\ timestep >= time_horizon \div 7
  /\ pc' = "done"
  /\ UNCHANGED <<paramVars, simVars, behaviours_dict, staticGraphVars, edges, visit_days, visits_done, added,
                 modelVars, aggVars, idx>>

\* ---------------------------------------------------------------------
\* Simulation.create_graph and Simulation.load_graph_from_file as called by
\* the script before run_multiple
\* ---------------------------------------------------------------------

CreateGraph ==
  /\ pc = "create_graph"
  /\ IF CreateGraphMsg # <<>>
     THEN /\ error' = Some(CreateGraphError)
          /\ pc' = "error"
          /\ UNCHANGED <<staticGraphVars, edges, visit_days, visits_done, added>>
     ELSE /\ \E g \in CreatedGraphs(graph_config, time_horizon, num_infected,
                                    age_structure, generic_infection) : SetGraph(g)
          /\ pc' = "run_single"
          /\ UNCHANGED error
  /\ UNCHANGED <<paramVars, other_run, new_graph_per_run, load_graph_filename, graph_file,
                 behaviours_dict, modelVars, aggVars, idx>>

\* load_graph_from_file(graph_filename), then the script's
\* simulation.load_graph_filename = graph_filename
LoadGraphFromFile ==
  /\ pc = "load_graph"
  /\ LET loaded_graph == Get(graph_file)
     IN IF ~ValidGraph(loaded_graph)
        THEN /\ error' = Some(GraphMismatch)
             /\ pc' = "error"
             /\ UNCHANGED <<staticGraphVars, edges, visit_days, visits_done, added,
                            load_graph_filename>>
        ELSE /\ SetGraph(loaded_graph)
             /\ load_graph_filename' = "graph.pkl"
             /\ pc' = "run_single"
             /\ UNCHANGED error
  /\ UNCHANGED <<paramVars, other_run, new_graph_per_run, graph_file, behaviours_dict,
                 modelVars, aggVars, idx>>

\* ---------------------------------------------------------------------
\* Initial states: a Simulation constructed from its input files, with the
\* app input set, about to create its graph and call run_multiple(n).
\* ---------------------------------------------------------------------

\* the behaviour strings of the app input, each as its fields
FoodShopping71 == <<"food", "_", "shopping", "_", "7", "_", "1">>
FoodShopping12 == <<"food", "_", "shopping", "_", "1", "_", "2">>
Party71 == <<"party", "_", "7", "_", "1">>
Party62 == <<"party", "_", "6", "_", "2">>
Party02 == <<"party", "_", "0", "_", "2">>
Party72 == <<"party", "_", "7", "_", "2">>
Party70 == <<"party", "_", "7", "_", "0">>
Party73 == <<"party", "_", "7", "_", "3">>
Party10 == <<"party", "_", "1", "_", "0">>
FoodShopping70 == <<"food", "_", "shopping", "_", "7", "_", "0">>
FoodShopping72 == <<"food", "_", "shopping", "_", "7", "_", "2">>

GraphConfig(q, c) ==
  [params |-> [short_connection_diameter |-> 1, long_connection_diameter |-> q,
               decay |-> 2],
   closeness_threshold |-> c]

AgeAB == <<[group |-> "a", n |-> 1], [group |-> "b", n |-> 1]>>
AgeAAB == <<[group |-> "a", n |-> 2], [group |-> "b", n |-> 1]>>
AgeA1 == <<[group |-> "a", n |-> 1]>>
AgeAABB == <<[group |-> "a", n |-> 2], [group |-> "b", n |-> 2]>>
AgeA5 == <<[group |-> "a", n |-> 5]>>

\* Two people over one or two timesteps, one run.  The closeness threshold
\* is varied where a behaviour reads the CloseNodesMatrix.
SmallConfigs ==
  { [age_structure |-> AgeAB, generic_infection |-> r, state_transitions |-> tb,
     behaviours |-> x.bs, graph_config |-> GraphConfig(0, x.c), time_horizon |-> T,
     num_infected |-> k, n |-> 1] :
      r \in {0, 50, 100}, tb \in {DetTable, MixTable}, T \in {1, 2}, k \in {1, 2},
      x \in { [bs |-> <<FoodShopping71>>, c |-> c] : c \in {0, 1} }
            \cup { [bs |-> bs, c |-> 1] :
                     bs \in {<<>>, <<Party71>>, <<Party02, Party70>>} } }

\* Several runs of one timestep on the same graph.
RepeatConfigs ==
  { [age_structure |-> AgeAB, generic_infection |-> r, state_transitions |-> tb,
     behaviours |-> bs, graph_config |-> GraphConfig(0, 1), time_horizon |-> 1,
     num_infected |-> 1, n |-> runs] :
      r \in {0, 50, 100}, tb \in {DetTable, MixTable}, bs \in {<<>>, <<Party71>>},
      runs \in 2..MaxRuns }

\* The same with long links drawn by the graph generator.
LongLinkConfigs ==
  { [age_structure |-> AgeAB, generic_infection |-> r, state_transitions |-> DetTable,
     behaviours |-> <<>>, graph_config |-> GraphConfig(1, 1), time_horizon |-> 2,
     num_infected |-> 1, n |-> 1] : r \in {50, 100} }

\* Three people: groups of more than two, two infectious neighbours.
GroupConfigs ==
  { [age_structure |-> AgeAAB, generic_infection |-> r, state_transitions |-> DetTable,
     behaviours |-> bs, graph_config |-> GraphConfig(0, 1), time_horizon |-> T,
     num_infected |-> k, n |-> 1] :
      r \in {50, 100}, bs \in {<<FoodShopping71, Party71>>, <<Party72>>},
      T \in {1, 2}, k \in {1, 2} }

\* Whole weeks: the reporting steps and the repair, and (with nobody
\* infected) the weekly schedule of visit days.
WeekConfigs ==
  { [age_structure |-> AgeAB, generic_infection |-> 50, state_transitions |-> x.tb,
     behaviours |-> <<>>, graph_config |-> GraphConfig(0, 1), time_horizon |-> x.T,
     num_infected |-> 1, n |-> runs] :
      x \in {[tb |-> DetTable, T |-> 7], [tb |-> DetTable, T |-> 8]},
      runs \in 1..MaxRuns }
  \cup
  { [age_structure |-> AgeAB, generic_infection |-> 50, state_transitions |-> MixTable,
     behaviours |-> <<>>, graph_config |-> GraphConfig(0, 1), time_horizon |-> 7,
     num_infected |-> 1, n |-> runs] : runs \in {1, 2} }
  \cup
  { [age_structure |-> AgeAB, generic_infection |-> 100, state_transitions |-> DetTable,
     behaviours |-> bs, graph_config |-> GraphConfig(0, 1), time_horizon |-> 8,
     num_infected |-> 0, n |-> 1] :
      bs \in {<<FoodShopping12>>, <<Party62>>} }

\* Five people of one age group on the 3 x 3 grid: close sets that are
\* neither empty nor everybody, and peers that no lattice edge joins.
TownConfigs ==
  { [age_structure |-> AgeA5, generic_infection |-> 100, state_transitions |-> DetTable,
     behaviours |-> <<FoodShopping72>>, graph_config |-> GraphConfig(0, 1),
     time_horizon |-> 1, num_infected |-> 0, n |-> 1] }

\* Three people: gatherings smaller and larger than the population allows,
\* and behaviours that are disabled or have nobody close.
GatheringConfigs ==
  { [age_structure |-> AgeAAB, generic_infection |-> 100, state_transitions |-> DetTable,
     behaviours |-> x.bs, graph_config |-> GraphConfig(0, x.c), time_horizon |-> 1,
     num_infected |-> 1, n |-> 1] :
      x \in { [bs |-> bs, c |-> 1] :
                bs \in {<<Party71>>, <<Party73>>, <<FoodShopping71>>, <<FoodShopping70>>,
                        <<Party70>>, <<FoodShopping70, Party70>>} }
            \cup { [bs |-> <<FoodShopping72>>, c |-> 0] } }
  \cup
  { [age_structure |-> AgeAB, generic_infection |-> 100, state_transitions |-> DetTable,
     behaviours |-> <<Party10>>, graph_config |-> GraphConfig(0, 1), time_horizon |-> 1,
     num_infected |-> 0, n |-> 1] }

\* One person, and four people filling the 2 x 2 grid.
SquareConfigs ==
  { [age_structure |-> as, generic_infection |-> 100, state_transitions |-> DetTable,
     behaviours |-> <<Party71>>, graph_config |-> GraphConfig(0, 1), time_horizon |-> 1,
     num_infected |-> 1, n |-> 1] : as \in {AgeA1, AgeAABB} }

\* Three people over three timesteps: the one infected has recovered
\* before the run ends, and gatherings go on after that.
ExtinctionConfigs ==
  { [age_structure |-> AgeAAB, generic_infection |-> 50, state_transitions |-> DetTable,
     behaviours |-> <<Party72>>, graph_config |-> GraphConfig(0, 1), time_horizon |-> 3,
     num_infected |-> 1, n |-> 1] }

Configs ==
  SmallConfigs \cup RepeatConfigs \cup LongLinkConfigs \cup GroupConfigs
  \cup WeekConfigs \cup TownConfigs \cup GatheringConfigs \cup SquareConfigs
  \cup ExtinctionConfigs

\* The configuration of the runs that load their graph or make a new graph
\* for every run.
ReloadConfig ==
  [age_structure |-> AgeAB, generic_infection |-> 100, state_transitions |-> DetTable,
   behaviours |-> <<Party71>>, graph_config |-> GraphConfig(0, 1), time_horizon |-> 1,
   num_infected |-> 1, n |-> 2]

\* The configurations a graph file may have been saved under: ReloadConfig
\* itself and configurations that differ from it in one validated field or
\* in two.
SavedUnder ==
  { ReloadConfig,
    [ReloadConfig EXCEPT !.graph_config = GraphConfig(0, 0)],
    [ReloadConfig EXCEPT !.time_horizon = 2],
    [ReloadConfig EXCEPT !.num_infected = 2],
    [ReloadConfig EXCEPT !.age_structure = AgeAAB],
    [ReloadConfig EXCEPT !.generic_infection = 50],
    [ReloadConfig EXCEPT !.time_horizon = 2, !.generic_infection = 50] }

\* pickle.dump(self.graph) of save_graph_to_file: the Graph objects a file
\* may hold
GraphFiles ==
  UNION { CreatedGraphs(cfg.graph_config, cfg.time_horizon, cfg.num_infected,
                        cfg.age_structure, Some(cfg.generic_infection)) :
            cfg \in SavedUnder }

\* What was done to the Simulation after its construction: whether the
\* infection data held a generic_infection, whether set_app_input_from_file
\* was called, the flag new_graph_per_run and the graph file handed to the
\* script, if any.
Defaults ==
  [infection_data |-> TRUE, app_input |-> TRUE, new_graph_per_run |-> FALSE,
   graph_file |-> None]

InitWith(cfg, opts) ==
  /\ age_structure = (IF opts.app_input THEN cfg.age_structure ELSE None)
  /\ population_size =
       (IF opts.app_input
        THEN Some(SumSeq([i \in 1..Len(cfg.age_structure) |-> cfg.age_structure[i].n]))
        ELSE None)
  /\ generic_infection = (IF opts.infection_data THEN Some(cfg.generic_infection) ELSE None)
  /\ state_transitions = (IF opts.infection_data THEN cfg.state_transitions ELSE None)
  /\ behaviours = (IF opts.app_input THEN cfg.behaviours ELSE None)
  /\ behaviours_dict = None
  /\ graph_config = cfg.graph_config
  /\ time_horizon = cfg.time_horizon
  /\ num_infected = cfg.num_infected
  /\ infection_rate = None
  /\ location = <<>>
  /\ age_group = EmptyDict
  /\ lattice = EmptyDict
  /\ edges = EmptyDict
  /\ visit_days = EmptyDict
  /\ close_nodes_arr = None
  /\ states_dict = EmptyDict
  /\ curr_time = 0
  /\ luck = EmptyDict
  /\ max_sum = None
  /\ n = cfg.n
  /\ all_results = <<>>
  /\ averaged = EmptyDict
  /\ timestep = 0
  /\ new_graph_per_run = opts.new_graph_per_run
  /\ load_graph_filename = ""
  /\ graph_file = opts.graph_file
  /\ error = None
  /\ visits_done = EmptyDict
  /\ added = {}
  /\ other_run = None
  /\ pc = IF opts.graph_file = None THEN "create_graph" ELSE "load_graph"
  /\ idx = 0

Init ==
  \/ \E cfg \in Configs : InitWith(cfg, Defaults)
  \/ InitWith(ReloadConfig, [Defaults EXCEPT !.new_graph_per_run = TRUE])
  \/ \E file \in GraphFiles, ng \in BOOLEAN :
       InitWith(ReloadConfig, [Defaults EXCEPT !.new_graph_per_run = ng,
                                               !.graph_file = Some(file)])
  \/ \E data, input \in BOOLEAN :
       /\ ~(data /\ input)
       /\ InitWith(ReloadConfig, [Defaults EXCEPT !.infection_data = data,
                                                  !.app_input = input])

Next ==
  \/ CreateGraph
  \/ LoadGraphFromFile
  \/ RunSingle
  \/ AddInteractions
  \/ DoProgression
  \/ DoInfection
  \/ RemoveInteractions
  \/ CollectResults
  \/ Average
  \/ Repair
  \/ ReturnAveraged

Spec == Init /\ [][Next]_vars

\* ---------------------------------------------------------------------
\* Two Models run at the same time.  No code of the repository starts two
\* runs in one process; the arrangement is the one the concurrency section
\* of the specification speaks of: two basic_simulation loops whose steps
\* interleave, on one Graph instance or on a Graph each.
\* ---------------------------------------------------------------------

\* Variant of SharesGraph: the second Model is always handed the Graph
\* instance of the first.
SharesGraphAlways == TRUE

\* Model.__init__ keeps the reference to the graph it is given: whether
\* the two Models hold one Graph instance
SharesGraph == Get(other_run).shares_graph

\* Model(params, graph) and basic_simulation up to the timestep loop for
\* the second Model, the first having just reached its own loop
StartOtherRun ==
  /\ other_run = None
  /\ pc = "add_interactions" /\ idx = 0 /\ curr_time = 0 /\ added = {}
  /\ \E shared \in BOOLEAN, infected \in SampleInfected(Nodes, num_infected) :
       other_run' =
         Some([shares_graph |-> shared,
               pc |-> "add_interactions", idx |-> 0, curr_time |-> 0,
               states_dict |-> MakeStatesDict(Nodes, time_horizon, infected),
               luck |-> EmptyDict, max_sum |-> None,
               visits_done |-> visits_done, added |-> {},
               edges |-> edges, visit_days |-> visit_days])
  /\ UNCHANGED <<paramVars, new_graph_per_run, load_graph_filename, graph_file,
                 error, behaviours_dict, staticGraphVars, edges, visit_days,
                 visits_done, added, modelVars, aggVars, pc, idx>>

\* The processor passes from the run that holds it to the other one,
\* between two calls of a node handler.  What belongs to a Model changes
\* hands; the graph does too when each Model has its own.
Switch ==
  /\ other_run # None
  /\ pc \in {"add_interactions", "do_progression", "do_infection",
             "remove_interactions", "get_results"}
  /\ LET o == Get(other_run)
         saved == [o EXCEPT !.pc = pc, !.idx = idx, !.curr_time = curr_time,
                            !.states_dict = states_dict, !.luck = luck,
                            !.max_sum = max_sum, !.visits_done = visits_done,
                            !.added = added]
     IN /\ o.pc # "get_results"
        /\ pc' = o.pc
        /\ idx' = o.idx
        /\ curr_time' = o.curr_time
        /\ states_dict' = o.states_dict
        /\ luck' = o.luck
        /\ max_sum' = o.max_sum
        /\ visits_done' = o.visits_done
        /\ added' = o.added
        /\ IF SharesGraph
           THEN /\ UNCHANGED <<edges, visit_days>>
                /\ other_run' = Some(saved)
           ELSE /\ edges' = o.edges
                /\ visit_days' = o.visit_days
                /\ other_run' = Some([saved EXCEPT !.edges = edges,
                                                   !.visit_days = visit_days])
  /\ UNCHANGED <<paramVars, new_graph_per_run, load_graph_filename, graph_file,
                 error, behaviours_dict, staticGraphVars, aggVars>>

\* Communities of two and three people who all meet every day
PairConfigs ==
  [age_structure : {AgeAB}, generic_infection : {100},
   state_transitions : {DetTable}, behaviours : {<<Party71>>},
   graph_config : {GraphConfig(0, 1)}, time_horizon : {1, 2},
   num_infected : {1}, n : {1}]
  \cup
  [age_structure : {AgeAAB}, generic_infection : {100},
   state_transitions : {DetTable}, behaviours : {<<Party72>>},
   graph_config : {GraphConfig(0, 1)}, time_horizon : {1},
   num_infected : {1}, n : {1}]

InitTwoRuns == \E cfg \in PairConfigs : InitWith(cfg, Defaults)

NextTwoRuns ==
  \/ CreateGraph
  \/ RunSingle
  \/ StartOtherRun
  \/ Switch
  \/ AddInteractions
  \/ DoProgression
  \/ DoInfection
  \/ RemoveInteractions

SpecTwoRuns == InitTwoRuns /\ [][NextTwoRuns]_vars

\* Communities of two with horizons of one timestep, two timesteps and
\* more than a week, and a graph file saved under the same inputs
TermConfigs ==
  [age_structure : {AgeAB}, generic_infection : {50},
   state_transitions : {DetTable}, behaviours : {<<Party71>>},
   graph_config : {GraphConfig(0, 1)}, time_horizon : {1, 2, 8},
   num_infected : {1}, n : {1, 2}]

InitTerm ==
  \/ \E cfg \in TermConfigs : InitWith(cfg, Defaults)
  \/ \E file \in GraphFiles :
       InitWith(ReloadConfig, [Defaults EXCEPT !.graph_file = Some(file)])

\* The script is one sequential process: as long as a step is left to
\* take, it is taken.
FairSpec == InitTerm /\ [][Next]_vars /\ WF_vars(Next)

\* ---------------------------------------------------------------------
\* The averaging and the repair of run_multiple as a function of the
\* results of the runs.  The runs are those of four people on the full
\* 2 x 2 grid, one of them infected, at infection rate 0.5, without
\* behaviours, over 14 timesteps under DwellTable; a result holds the
\* counts at timesteps 1 and 8.  Each result below is that of a run whose
\* compartment counts per timestep are noted with it.
\* ---------------------------------------------------------------------

RunResult(s, e, a, i, h, d, r) ==
  [S |-> s, E |-> e, A |-> a, I |-> i, H |-> h, D |-> d, R |-> r]

\* the infected stays I and exposes one neighbour in timestep 7:
\* S3 I1 through timestep 7, then S2 E1 I1
ResultLateExposure ==
  RunResult(<<3, 2>>, <<0, 1>>, <<0, 0>>, <<1, 1>>, <<0, 0>>, <<0, 0>>, <<0, 0>>)

\* S3 I1, S1 E2 I1, S1 A2 I1, then E1 A2 I1 through timestep 7 and
\* E1 A2 H1 from timestep 8
ResultSlowCourse ==
  RunResult(<<1, 0>>, <<2, 1>>, <<0, 2>>, <<1, 0>>, <<0, 1>>, <<0, 0>>, <<0, 0>>)

\* S3 I1, S1 E2 H1, S1 A2 R1, E1 I2 R1, A1 H2 R1, then I1 H1 R2
ResultFastCourse ==
  RunResult(<<1, 0>>, <<2, 0>>, <<0, 0>>, <<0, 1>>, <<1, 1>>, <<0, 0>>, <<0, 2>>)

\* S3 I1, S3 H1, then S3 R1: nobody is exposed
ResultNoSpread ==
  RunResult(<<3, 3>>, <<0, 0>>, <<0, 0>>, <<0, 0>>, <<1, 0>>, <<0, 0>>, <<0, 1>>)

\* S3 I1 throughout
ResultNoChange ==
  RunResult(<<3, 3>>, <<0, 0>>, <<0, 0>>, <<1, 1>>, <<0, 0>>, <<0, 0>>, <<0, 0>>)

WeekTwoResults ==
  {ResultLateExposure, ResultSlowCourse, ResultFastCourse, ResultNoSpread,
   ResultNoChange}

\* run_multiple(n) when its n runs have returned: the graph is as it was
\* created, the Model of each run is gone with the call of run_single
\* that made it, and all_results holds the results
InitRepair ==
  \E g \in CreatedGraphs(GraphConfig(0, 1), 14, 1, AgeAABB, Some(50)) :
  \E k \in 1..MaxRuns : \E results \in [1..k -> WeekTwoResults] :
    /\ age_structure = AgeAABB
    /\ population_size = Some(4)
    /\ generic_infection = Some(50)
    /\ state_transitions = DwellTable
    /\ behaviours = <<>>
    /\ behaviours_dict = ConvertBehavioursToDict(<<>>)
    /\ graph_config = g.graph_config
    /\ time_horizon = g.time_horizon
    /\ num_infected = g.num_infected
    /\ infection_rate = g.infection_rate
    /\ location = g.location
    /\ age_group = g.age_group
    /\ lattice = g.edges
    /\ edges = g.edges
    /\ close_nodes_arr = g.close_nodes_arr
    /\ visit_days = [v \in 0..(Len(g.location) - 1) |-> EmptyDict]
    /\ visits_done = [v \in 0..(Len(g.location) - 1) |-> EmptyDict]
    /\ added = {}
    /\ states_dict = EmptyDict
    /\ curr_time = g.time_horizon - 1
    /\ luck = EmptyDict
    /\ max_sum = None
    /\ n = k
    /\ all_results = results
    /\ averaged = EmptyDict
    /\ timestep = 0
    /\ new_graph_per_run = FALSE
    /\ load_graph_filename = ""
    /\ graph_file = None
    /\ error = None
    /\ other_run = None
    /\ pc = "average"
    /\ idx = 0

NextRepair ==
  \/ Average
  \/ Repair
  \/ ReturnAveraged

SpecRepair == InitRepair /\ [][NextRepair]_vars

\* ---------------------------------------------------------------------
\* Properties
\* ---------------------------------------------------------------------

\* the integer behind an attribute that is set
PopulationSize == Get(population_size)

\* the sum over the runs of one compartment's count at one reporting step
RunsTotal(state, i) == SumSeq([k \in 1..Len(all_results) |-> all_results[k][state][i]])

\* the sum of the seven counts of a series at one reporting step
SeriesTotal(series, i) == SumSeq([k \in 1..Len(STATES) |-> series[STATES[k]][i]])

\* timestep t of the timeline holds one compartment for every node and no
\* other key
TimelineComplete(t) ==
  /\ DOMAIN states_dict[t] = Nodes
  /\ \A v \in Nodes : states_dict[t][v] \in StateSet

\* v was the target of a draw of this timestep that did not exceed the weight
SuccessfulDraw(v) ==
  \E p \in DOMAIN luck : p[2] = v /\ luck[p] <= edges[{p[1], p[2]}].weight

Infectious(t, m) == states_dict[t][m] \in {"I", "A"}

\* C1: in the series run_multiple returns, the seven compartment counts at
\* every index of the returned lists sum to population_size, for every
\* time_horizon > 0 and every n >= 1.
C1_ReturnedSeriesConserved ==
  pc = "done" =>
    \A i \in 1..Len(averaged["S"]) : SeriesTotal(averaged, i) = PopulationSize

\* C2: the timeline holds exactly one compartment for every node, and for no
\* other key, at every timestep processed so far; once the progression pass
\* of timestep t is over the t+1 entry is complete, and after the run every
\* timestep 0..time_horizon is.
C2_TimelineComplete ==
  /\ pc \in {"add_interactions", "do_progression"} =>
       \A t \in 0..curr_time : TimelineComplete(t)
  /\ pc \in {"do_infection", "remove_interactions"} =>
       \A t \in 0..(curr_time + 1) : TimelineComplete(t)
  /\ pc \in {"get_results", "average", "repair", "done"} =>
       /\ DOMAIN states_dict = 0..time_horizon
       /\ \A t \in 0..time_horizon : TimelineComplete(t)

C2_Witness ==
  /\ pc = "get_results"
  /\ time_horizon = 2
  /\ \E v \in Nodes : /\ states_dict[0][v] = "S"
                      /\ states_dict[1][v] = "E"
                      /\ states_dict[2][v] = "A"
  /\ \E v \in Nodes : states_dict[2][v] = "S"

\* C3: a step of the infection pass changes the t+1 state only of nodes that
\* are S at t, and only to E.
C3_InfectionOnlyExposesSusceptible ==
  [][pc = "do_infection" =>
       \A v \in Nodes :
         states_dict'[curr_time + 1][v] # states_dict[curr_time + 1][v] =>
           /\ states_dict[curr_time][v] = "S"
           /\ states_dict'[curr_time + 1][v] = "E"]_vars

C3_Witness ==
  /\ pc = "remove_interactions"
  /\ \E m \in Nodes :
       /\ Infectious(curr_time, m)
       /\ \E v \in Neighbors(m) : /\ states_dict[curr_time][v] = "S"
                                  /\ states_dict[curr_time + 1][v] = "E"
       /\ \E u \in Neighbors(m) : /\ states_dict[curr_time][u] = "I"
                                  /\ states_dict[curr_time + 1][u] = "H"

\* C4: when the passes of timestep t are over, a node that is S, D or R at t
\* and was the target of no successful draw is in the same state at t+1.
C4_UninfectedStays ==
  pc = "remove_interactions" =>
    \A v \in Nodes :
      (states_dict[curr_time][v] \in {"S", "D", "R"} /\ ~SuccessfulDraw(v)) =>
        states_dict[curr_time + 1][v] = states_dict[curr_time][v]

C4_Witness ==
  /\ pc = "remove_interactions"
  /\ \E v \in Nodes : /\ states_dict[curr_time][v] = "S"
                      /\ \E p \in DOMAIN luck : p[2] = v
                      /\ ~SuccessfulDraw(v)
                      /\ states_dict[curr_time + 1][v] = "S"

\* C5: when the infection pass of timestep t is over, one draw has been made
\* for every pair of a node that is I or A at t and a neighbour that is S at
\* t (and for no other pair); if the draw is <= the weight of their edge the
\* neighbour is E at t+1, so with weight 1 every such neighbour is E; an S
\* node with no I or A neighbour is S at t+1.
C5_InfectionSpreads ==
  pc = "remove_interactions" =>
    /\ DOMAIN luck = {p \in Nodes \X Nodes : /\ Infectious(curr_time, p[1])
                                             /\ p[2] \in Neighbors(p[1])
                                             /\ states_dict[curr_time][p[2]] = "S"}
    /\ \A p \in DOMAIN luck :
         /\ luck[p] <= edges[{p[1], p[2]}].weight => states_dict[curr_time + 1][p[2]] = "E"
         /\ edges[{p[1], p[2]}].weight = 100 => states_dict[curr_time + 1][p[2]] = "E"
    /\ \A v \in Nodes :
         (/\ states_dict[curr_time][v] = "S"
          /\ \A m \in Neighbors(v) : ~Infectious(curr_time, m)) =>
           states_dict[curr_time + 1][v] = "S"

C5_Witness ==
  /\ pc = "remove_interactions"
  /\ \E p \in DOMAIN luck : /\ luck[p] = 50
                            /\ edges[{p[1], p[2]}].weight = 50
                            /\ edges[{p[1], p[2]}].interaction_edge
                            /\ states_dict[curr_time + 1][p[2]] = "E"

\* C6: throughout every run, timestep 0 of the timeline has exactly
\* num_infected nodes in I and every other node in S.
C6_Seeding ==
  pc \in {"add_interactions", "do_progression", "do_infection",
          "remove_interactions", "get_results"} =>
    /\ DOMAIN states_dict[0] = Nodes
    /\ Cardinality({v \in Nodes : states_dict[0][v] = "I"}) = num_infected
    /\ \A v \in Nodes : states_dict[0][v] \in {"I", "S"}

C6_Witness ==
  /\ pc = "add_interactions"
  /\ curr_time = 0
  /\ Len(all_results) = 1
  /\ num_infected = 1
  /\ \E v \in Nodes : states_dict[0][v] = "S"

\* C7: from construction on no lattice edge is removed or altered, and after
\* the edge-removal step (before the next timestep's first node adds edges,
\* and after the run) the graph has no edge marked transient and its edges,
\* with attributes, are those of the lattice as constructed.
C7_LatticeRestored ==
  /\ pc \notin {"create_graph", "load_graph", "error"} =>
       \A e \in DOMAIN lattice : e \in DOMAIN edges /\ edges[e] = lattice[e]
  /\ (\/ pc = "add_interactions" /\ idx = 0
      \/ pc \in {"run_single", "get_results", "average", "repair", "done"}) =>
       /\ InteractionEdges = {}
       /\ edges = lattice

\* a node with no lattice edge was exposed in timestep 0: a transient edge
\* existed then, and timestep 1 is about to begin
C7_Witness ==
  /\ pc = "add_interactions"
  /\ idx = 0
  /\ curr_time = 1
  /\ \E v \in Nodes : /\ states_dict[0][v] = "S"
                      /\ states_dict[1][v] = "E"
                      /\ \A m \in Nodes : {m, v} \notin DOMAIN lattice

\* C8: in every timestep the passes follow each other in the order add
\* transient edges, progression, infection, remove transient edges; each
\* pass visits the nodes 0..N-1 in turn and the next starts only after the
\* last node; the edges are not changed by the progression and infection
\* passes, so the infection pass reads the transient edges of this timestep.
C8_PassOrder ==
  [][/\ pc = "add_interactions" =>
          IF idx + 1 < Cardinality(Nodes) THEN pc' = pc /\ idx' = idx + 1
          ELSE pc' = "do_progression" /\ idx' = 0
     /\ pc = "do_progression" =>
          /\ edges' = edges
          /\ IF idx + 1 < Cardinality(Nodes) THEN pc' = pc /\ idx' = idx + 1
             ELSE pc' = "do_infection" /\ idx' = 0
     /\ pc = "do_infection" =>
          /\ edges' = edges
          /\ IF idx + 1 < Cardinality(Nodes) THEN pc' = pc /\ idx' = idx + 1
             ELSE pc' = "remove_interactions" /\ idx' = 0
     /\ pc = "remove_interactions" =>
          /\ idx' = 0
          /\ IF curr_time + 1 < time_horizon
             THEN pc' = "add_interactions" /\ curr_time' = curr_time + 1
             ELSE pc' = "get_results"
     /\ pc \in {"add_interactions", "do_progression", "do_infection"} =>
          curr_time' = curr_time]_vars

\* an S node whose only infectious neighbour is joined to it by a transient
\* edge has been exposed
C8_Witness ==
  /\ pc = "remove_interactions"
  /\ \E v \in Nodes :
       /\ states_dict[curr_time][v] = "S"
       /\ states_dict[curr_time + 1][v] = "E"
       /\ \E m \in Neighbors(v) : Infectious(curr_time, m)
       /\ \A m \in Neighbors(v) :
            Infectious(curr_time, m) => edges[{m, v}].interaction_edge

\* C9: in the returned series, at a reporting step the repair loop visits
\* and whose rounded means do not sum to population_size, the first
\* compartment (in the order S,E,A,I,H,D,R) holding the largest rounded mean
\* differs from its rounded mean by population_size minus the total and the
\* other six equal their rounded means; at every other step all seven equal
\* their rounded means.
C9_RepairTouchesBiggestOnly ==
  pc = "done" =>
    LET rounded == Averaged(all_results) IN
    \A i \in 1..Len(rounded["S"]) :
      IF i <= time_horizon \div 7 /\ SeriesTotal(rounded, i) # PopulationSize
      THEN \E k \in 1..Len(STATES) :
             /\ \A j \in 1..Len(STATES) : rounded[STATES[j]][i] <= rounded[STATES[k]][i]
             /\ \A j \in 1..(k - 1) : rounded[STATES[j]][i] < rounded[STATES[k]][i]
             /\ averaged[STATES[k]][i] =
                  rounded[STATES[k]][i] + (PopulationSize - SeriesTotal(rounded, i))
             /\ \A j \in 1..Len(STATES) :
                  j # k => averaged[STATES[j]][i] = rounded[STATES[j]][i]
      ELSE \A j \in 1..Len(STATES) : averaged[STATES[j]][i] = rounded[STATES[j]][i]

C9_Witness ==
  /\ pc = "done"
  /\ time_horizon \div 7 >= 1
  /\ SeriesTotal(Averaged(all_results), 1) # PopulationSize
  /\ SeriesTotal(averaged, 1) = PopulationSize
  /\ averaged["S"][1] # Averaged(all_results)["S"][1]

\* C10: before the repair loop every value of the series differs from the
\* exact mean over the n runs of that compartment's count at that reporting
\* step by at most 1/2, and the series has one value per reporting step; the
\* mean of the counts 3 and 2 becomes 2 or 3.
C10_RoundedMean ==
  /\ (pc = "repair" /\ timestep = 0) =>
       \A state \in StateSet :
         /\ Len(averaged[state]) = Len(ReportSteps(time_horizon))
         /\ \A i \in 1..Len(averaged[state]) :
              2 * Abs(averaged[state][i] * n - RunsTotal(state, i)) <= n
  /\ RoundMean(3 + 2, 2) \in {2, 3}

C10_Witness ==
  /\ pc = "repair"
  /\ timestep = 0
  /\ n = 3
  /\ \E state \in StateSet : /\ RunsTotal(state, 1) % 3 = 2
                             /\ averaged[state][1] = RunsTotal(state, 1) \div 3 + 1

\* a run has handed its series to run_multiple and the next run, if any,
\* has not started: the timeline is still that of the run
ResultsExtracted ==
  /\ Len(all_results) > 0
  /\ pc \in {"run_single", "average", "repair", "done"}

LastResult == all_results[Len(all_results)]

\* the number of nodes the timeline records in a compartment at timestep t
CountAt(t, state) ==
  Cardinality({v \in DOMAIN states_dict[t] : states_dict[t][v] = state})

\* the series r holds, in increasing order of the timestep, the counts of
\* the timeline at the timesteps of the set steps and nothing else
SeriesOver(steps, r) ==
  \A state \in StateSet :
    /\ Len(r[state]) = Cardinality(steps)
    /\ \A t \in steps :
         r[state][Cardinality({u \in steps : u <= t})] = CountAt(t, state)

\* C11 as stated: the series of a run holds the compartment counts of the
\* timeline at timesteps 0, 7, 14, ... up to time_horizon, in that order.
C11_ReportsFromStepZero ==
  ResultsExtracted =>
    SeriesOver({t \in 0..time_horizon : t % 7 = 0}, LastResult)

\* C11: the series of a run holds the compartment counts of the timeline at
\* timesteps 1, 8, 15, ... not exceeding time_horizon, in that order.
C11_ReportsFromStepOne ==
  ResultsExtracted =>
    SeriesOver({t \in 0..time_horizon : t % 7 = 1}, LastResult)

\* a run of 8 timesteps whose two reports differ: the seeded node is in H
\* at timestep 1 and in R at timestep 8
C11_Witness ==
  /\ ResultsExtracted
  /\ time_horizon = 8
  /\ LastResult["H"] = <<1, 0>>
  /\ LastResult["R"][2] >= 1

\* C12: the result of a run has one list per compartment S,E,A,I,H,D,R, all
\* of the length ceil(time_horizon / 7) (1 for time_horizon 1 and for 7); a
\* compartment holding no node at a reporting step reports 0 there, and the
\* seven counts of a reporting step sum to the number of nodes the timeline
\* records at that step.
C12_OneListPerCompartment ==
  ResultsExtracted =>
    LET periods == CHOOSE m \in 0..time_horizon :
                     7 * m >= time_horizon /\ 7 * (m - 1) < time_horizon
    IN /\ DOMAIN LastResult = StateSet
       /\ \A state \in StateSet : Len(LastResult[state]) = periods
       /\ time_horizon \in {1, 7} => \A state \in StateSet : Len(LastResult[state]) = 1
       /\ \A i \in 1..periods :
            /\ \A state \in StateSet :
                 (\A v \in DOMAIN states_dict[7 * i - 6] :
                    states_dict[7 * i - 6][v] # state) => LastResult[state][i] = 0
            /\ SeriesTotal(LastResult, i) = Cardinality(DOMAIN states_dict[7 * i - 6])

C12_Witness ==
  /\ ResultsExtracted
  /\ time_horizon = 7
  /\ Len(LastResult["S"]) = 1
  /\ LastResult["D"] = <<0>>
  /\ LastResult["H"] = <<1>>
  /\ LastResult["S"] = <<1>>

\* C13: the visit days of a node change only in the node's own
\* add-interactions step at a timestep with t mod 7 = 0, which gives every
\* configured behaviour exactly `visits` distinct weekdays out of 0..6; no
\* other step of a run changes them; and when the seventh timestep of a week
\* has added its interactions every node has performed every behaviour on
\* exactly `visits` timesteps of that week.
C13_WeeklyVisitDays ==
  [][/\ (pc = "add_interactions" /\ curr_time % 7 = 0) =>
          /\ \A v \in Nodes : v # idx => visit_days'[v] = visit_days[v]
          /\ DOMAIN visit_days'[idx] =
               {behaviours_dict[k].name : k \in 1..Len(behaviours_dict)}
          /\ \A k \in 1..Len(behaviours_dict) :
               LET chosen_days == visit_days'[idx][behaviours_dict[k].name]
               IN /\ chosen_days \subseteq 0..6
                  /\ Cardinality(chosen_days) = behaviours_dict[k].visits
     /\ (pc = "add_interactions" /\ curr_time % 7 # 0) => visit_days' = visit_days
     /\ pc \in {"do_progression", "do_infection", "remove_interactions",
                "get_results", "average", "repair"} => visit_days' = visit_days
     /\ (pc = "run_single" /\ ~new_graph_per_run) => visit_days' = visit_days
     /\ (pc' = "remove_interactions" /\ curr_time' % 7 = 6) =>
          \A v \in Nodes : \A k \in 1..Len(behaviours_dict) :
            visits_done'[v][behaviours_dict[k].name] = behaviours_dict[k].visits]_vars

\* a first week is over in which a node went to a behaviour of six visits
\* on every weekday but one
C13_Witness ==
  /\ pc = "add_interactions"
  /\ curr_time = 7
  /\ idx = 0
  /\ Len(behaviours_dict) = 1
  /\ behaviours_dict[1].visits = 6
  /\ \E v \in Nodes :
       /\ visit_days[v][behaviours_dict[1].name] = (0..6) \ {3}
       /\ visits_done[v][behaviours_dict[1].name] = 6

\* the only configured behaviour is the one of this name
OnlyBehaviour(name) ==
  /\ behaviours_dict # None
  /\ Len(behaviours_dict) = 1
  /\ behaviours_dict[1].name = name

\* a step in which node idx performs its only configured behaviour
PerformsOnlyBehaviour ==
  /\ pc = "add_interactions"
  /\ Len(behaviours_dict) = 1
  /\ (curr_time % 7) \in visit_days'[idx][behaviours_dict[1].name]

\* this step leaves every edge it found as it was and marks every edge it
\* adds transient, with the infection rate as weight
OnlyAddsTransientEdges ==
  /\ \A e \in DOMAIN edges : e \in DOMAIN edges' /\ edges'[e] = edges[e]
  /\ \A e \in DOMAIN edges' \ DOMAIN edges :
       edges'[e] = [weight |-> Get(infection_rate), interaction_edge |-> TRUE]

Min2(a, b) == IF a <= b THEN a ELSE b

\* C14: when a node performs food_shopping, there is a set of
\* min(group_size, number of close nodes) distinct peers, all in the node's
\* row of the CloseNodesMatrix, such that the edges after the step are the
\* edges before it plus an edge between the node and each peer: no edge
\* between two peers is added and nobody outside the close set is contacted.
C14_FoodShoppingStar ==
  [][(PerformsOnlyBehaviour /\ behaviours_dict[1].name = FoodShopping) =>
       LET close == {m \in Nodes : close_nodes_arr[idx][m] # 0}
           size == Min2(behaviours_dict[1].num_people, Cardinality(close))
       IN /\ OnlyAddsTransientEdges
          /\ \E peers \in SUBSET close :
               /\ Cardinality(peers) = size
               /\ DOMAIN edges' = DOMAIN edges \cup {{idx, peer} : peer \in peers}]_vars

\* node 0 of five has gone shopping with two peers whom no edge joins, one
\* of them reached by a new transient edge, while some node is not close
C14_Witness ==
  /\ pc = "add_interactions"
  /\ curr_time = 0
  /\ idx = 1
  /\ OnlyBehaviour(FoodShopping)
  /\ behaviours_dict[1].num_people = 2
  /\ Cardinality(InteractionEdges) = 2
  /\ \E p, q \in Nodes :
       /\ p # q
       /\ {{0, p}, {0, q}} = InteractionEdges
       /\ {p, q} \notin DOMAIN edges
  /\ \E u \in Nodes : u # 0 /\ close_nodes_arr[0][u] = 0

\* C15: when a node performs a behaviour other than food_shopping, there is
\* a set of min(group_size, N-1) distinct peers among the other nodes such
\* that after the step every two distinct members of the group (the peers
\* and the node) are joined: the edges after the step are the edges before
\* it plus a transient edge for every pair of the group not joined before.
C15_GatheringClique ==
  [][(PerformsOnlyBehaviour /\ behaviours_dict[1].name # FoodShopping) =>
       LET size == Min2(behaviours_dict[1].num_people, Cardinality(Nodes) - 1)
       IN /\ OnlyAddsTransientEdges
          /\ \E peers \in SUBSET (Nodes \ {idx}) :
               /\ Cardinality(peers) = size
               /\ \A a, b \in peers \cup {idx} : a # b => {a, b} \in DOMAIN edges'
               /\ \A e \in DOMAIN edges' \ DOMAIN edges : e \subseteq peers \cup {idx}]_vars

\* node 0 of three has called a gathering of three people: both others
\* came, and the one new edge joins the two peers
C15_Witness ==
  /\ pc = "add_interactions"
  /\ curr_time = 0
  /\ idx = 1
  /\ OnlyBehaviour(<<"party">>)
  /\ behaviours_dict[1].num_people = 3
  /\ Cardinality(Nodes) = 3
  /\ InteractionEdges = {{1, 2}}

\* C16: a step in which a node performs only behaviours whose num_people is
\* 0, or food_shopping while no node is close to it, adds no edge and
\* raises no error: the edges are unchanged and the run goes on.
C16_DisabledBehaviourAddsNothing ==
  [][(/\ pc = "add_interactions"
      /\ Len(behaviours_dict) >= 1
      /\ \A k \in 1..Len(behaviours_dict) :
           \/ behaviours_dict[k].num_people = 0
           \/ /\ behaviours_dict[k].name = FoodShopping
              /\ \A m \in Nodes : close_nodes_arr[idx][m] = 0) =>
       /\ edges' = edges
       /\ error' = None
       /\ pc' \in {"add_interactions", "do_progression"}]_vars

\* every node of three has performed a party of 0 people on the first day,
\* two of the nodes are joined by no edge, and no edge is transient
C16_Witness ==
  /\ pc = "do_progression"
  /\ curr_time = 0
  /\ OnlyBehaviour(<<"party">>)
  /\ behaviours_dict[1].num_people = 0
  /\ Cardinality(Nodes) = 3
  /\ \A v \in Nodes : visits_done[v][<<"party">>] = 1
  /\ \E a, b \in Nodes : a # b /\ {a, b} \notin DOMAIN edges
  /\ InteractionEdges = {}

\* the pieces of an error message
Pieces(message) == {message[i] : i \in 1..Len(message)}

\* C17: create_graph raises exactly when population_size or
\* generic_infection is unset; the message names the community if and only
\* if population_size is unset and the infection data if and only if
\* generic_infection is unset; and the raising call leaves the Graph
\* object's graph, infection_rate and CloseNodesMatrix as they were.
C17_CreateGraphPrecondition ==
  [][pc = "create_graph" =>
       IF population_size = None \/ generic_infection = None
       THEN /\ pc' = "error"
            /\ error' # None
            /\ Get(error')[1] = "Cannot create the graph: "
            /\ "the community has not been set" \in Pieces(Get(error'))
                 <=> population_size = None
            /\ "the infection data has not been set" \in Pieces(Get(error'))
                 <=> generic_infection = None
            /\ UNCHANGED <<location, age_group, lattice, edges, infection_rate,
                           close_nodes_arr>>
       ELSE /\ pc' # "error"
            /\ error' = None
            /\ location' # <<>>]_vars

\* create_graph has raised with both items missing and no graph was built
C17_Witness ==
  /\ pc = "error"
  /\ population_size = None
  /\ generic_infection = None
  /\ error = Some(<<"Cannot create the graph: ", "the community has not been set",
                    ", ", "the infection data has not been set">>)
  /\ location = <<>>
  /\ infection_rate = None
  /\ close_nodes_arr = None

\* the fields of the Graph object the Simulation holds
graphFields ==
  <<graph_config, time_horizon, num_infected, infection_rate, location,
    age_group, lattice, edges, close_nodes_arr>>

\* the number of the five validated fields in which the graph of the file
\* differs from the current configuration
Mismatches(g) ==
  (IF g.graph_config # graph_config THEN 1 ELSE 0)
  + (IF g.time_horizon # time_horizon THEN 1 ELSE 0)
  + (IF g.num_infected # num_infected THEN 1 ELSE 0)
  + (IF Len(g.location) # PopulationSize THEN 1 ELSE 0)
  + (IF g.infection_rate # generic_infection THEN 1 ELSE 0)

\* C18: load_graph_from_file installs the graph of the file if and only if
\* its graph_config, time_horizon and num_infected equal the current ones,
\* its node count equals population_size and its infection_rate equals
\* generic_infection; when any of the five differs it raises and the
\* simulation keeps the Graph object it had.
C18_ReloadedGraphValidated ==
  [][pc = "load_graph" =>
       LET g == Get(graph_file)
       IN IF Mismatches(g) = 0
          THEN /\ pc' = "run_single"
               /\ error' = None
               /\ location' = g.location
               /\ age_group' = g.age_group
               /\ edges' = g.edges
               /\ close_nodes_arr' = g.close_nodes_arr
               /\ infection_rate' = g.infection_rate
          ELSE /\ pc' = "error"
               /\ error' = Some(GraphMismatch)
               /\ UNCHANGED graphFields]_vars

\* a file whose graph differs from the configuration in its infection rate
\* only has been rejected, and the simulation still has no built graph
C18_Witness ==
  /\ pc = "error"
  /\ error = Some(GraphMismatch)
  /\ graph_file # None
  /\ Mismatches(Get(graph_file)) = 1
  /\ Get(graph_file).infection_rate # generic_infection
  /\ location = <<>>
  /\ infection_rate = None

\* a graph has been built or loaded
GraphBuilt == pc \notin {"create_graph", "load_graph", "error"}

C21_CloseNodesMatrix ==
  GraphBuilt =>
    /\ DOMAIN close_nodes_arr = Nodes
    /\ \A a \in Nodes :
         /\ DOMAIN close_nodes_arr[a] = Nodes
         /\ close_nodes_arr[a][a] = 0
         /\ \A b \in Nodes :
              /\ close_nodes_arr[a][b] \in {0, 1}
              /\ close_nodes_arr[a][b] = close_nodes_arr[b][a]
              /\ a # b =>
                   (close_nodes_arr[a][b] = 1 <=>
                      /\ Abs(location[a + 1][1] - location[b + 1][1])
                           <= graph_config.closeness_threshold
                      /\ Abs(location[a + 1][2] - location[b + 1][2])
                           <= graph_config.closeness_threshold)

\* on the 3 x 3 grid with threshold 1 two diagonal neighbours are close and
\* two nodes two columns apart are not
C21_Witness ==
  /\ pc = "run_single"
  /\ Len(location) = 5
  /\ graph_config.closeness_threshold = 1
  /\ \E a, b, c \in Nodes :
       /\ location[a + 1] = <<0, 0>>
       /\ location[b + 1] = <<1, 1>>
       /\ location[c + 1] = <<0, 2>>
       /\ close_nodes_arr[a][b] = 1
       /\ close_nodes_arr[a][c] = 0
       /\ close_nodes_arr[b][c] = 1

\* the timesteps of the timeline that are completely written
WrittenThrough ==
  IF pc \in {"get_results", "average", "repair", "done"} THEN time_horizon
  ELSE curr_time

RunUnderWay ==
  pc \in {"add_interactions", "do_progression", "do_infection",
          "remove_interactions", "get_results", "average", "repair", "done"}

\* C22: with the transition table E->A->I->H->R of probability 1, a node in
\* E at timestep t is in A at t+1, I at t+2, H at t+3 and R at every later
\* timestep up to the horizon (and so a node in I at 0 is in H at 1 and R
\* from 2 on); at the final timestep the compartment counts sum to the
\* population.
C22_DeterministicCourse ==
  (RunUnderWay /\ state_transitions = DetTable) =>
    /\ \A v \in Nodes : \A t \in 0..WrittenThrough : \A d \in 1..(WrittenThrough - t) :
         /\ states_dict[t][v] = "E" =>
              states_dict[t + d][v] =
                (CASE d = 1 -> "A" [] d = 2 -> "I" [] d = 3 -> "H" [] OTHER -> "R")
         /\ states_dict[t][v] = "I" =>
              states_dict[t + d][v] = (IF d = 1 THEN "H" ELSE "R")
    /\ pc = "get_results" =>
         /\ \A v \in Nodes :
              (\E t \in 0..(time_horizon - 4) : states_dict[t][v] \in {"E", "I"})
                => states_dict[time_horizon][v] = "R"
         /\ SumSeq([k \in 1..Len(STATES) |-> CountAt(time_horizon, STATES[k])])
              = PopulationSize

\* a node exposed in timestep 0 has gone through A, I and H and is in R at
\* the end of a run of seven timesteps
C22_Witness ==
  /\ pc = "get_results"
  /\ state_transitions = DetTable
  /\ time_horizon = 7
  /\ \E v \in Nodes :
       /\ states_dict[0][v] = "S"
       /\ states_dict[1][v] = "E"
       /\ states_dict[4][v] = "H"
       /\ states_dict[5][v] = "R"
       /\ states_dict[7][v] = "R"

\* an edge the run has added in this timestep is gone before the run's
\* infection pass is over
LostEdge ==
  /\ pc \in {"add_interactions", "do_progression", "do_infection"}
  /\ \E e \in added : e \notin DOMAIN edges

\* the run's infection pass finds a transient edge the run has not added
ForeignEdge ==
  /\ pc = "do_infection"
  /\ \E e \in InteractionEdges : e \notin added

\* C23: when the timestep loops of two runs interleave, a run can lose a
\* transient edge it has added before its infection pass has read it, or
\* read in its infection pass a transient edge it has not added, only if
\* the two runs use the same Graph instance; with a Graph of its own for
\* each run neither happens.
C23_OwnGraphIsSafe ==
  (other_run # None /\ (LostEdge \/ ForeignEdge)) => Get(other_run).shares_graph

\* on a shared graph a run is in its infection pass after the other run's
\* removal has deleted the edge it had added
C23_Witness ==
  /\ other_run # None
  /\ Get(other_run).shares_graph
  /\ pc = "do_infection"
  /\ LostEdge

\* C24: run_multiple executes its n runs one after another: a run starts
\* only when the results of all runs before it have been extracted, and
\* after the n-th the averaging starts.  A run starts with a timeline of
\* its own (timestep 0 seeded, nothing written for later timesteps), no
\* step ever alters a result extracted earlier, and at the start of a run
\* the graph holds no transient edge.
C24_RunsInSequence ==
  [][/\ Len(all_results') >= Len(all_results)
     /\ Len(all_results') <= Len(all_results) + 1
     /\ \A i \in 1..Len(all_results) : all_results'[i] = all_results[i]
     /\ Len(all_results') = Len(all_results) + 1 =>
          (pc = "get_results" /\ pc' \in {"run_single", "average"})
     /\ (pc' = "run_single" \/ (RunUnderWay /\ pc \notin {"average", "repair", "done"}))
          => Len(all_results) < n
     /\ pc' = "average" => Len(all_results') = n
     /\ pc' = "run_single" => InteractionEdges' = {}
     /\ (pc = "run_single" /\ pc' = "add_interactions") =>
          /\ InteractionEdges' = {}
          /\ DOMAIN states_dict' = 0..time_horizon'
          /\ DOMAIN states_dict'[0] = 0..(Len(location') - 1)
          /\ \A v \in DOMAIN states_dict'[0] : states_dict'[0][v] \in {"S", "I"}
          /\ Cardinality({v \in DOMAIN states_dict'[0] : states_dict'[0][v] = "I"})
               = num_infected'
          /\ \A t \in 1..time_horizon' : states_dict'[t] = EmptyDict]_vars

\* the second run has started on a fresh timeline while the result of the
\* first run, which exposed somebody, is held
C24_Witness ==
  /\ pc = "do_progression"
  /\ n >= 2
  /\ Len(all_results) = 1
  /\ all_results[1]["E"][1] > 0
  /\ states_dict[1] = EmptyDict
  /\ \A v \in Nodes : states_dict[0][v] \in {"S", "I"}

\* the loop over time is in one of its passes
InTimestep ==
  pc \in {"add_interactions", "do_progression", "do_infection", "remove_interactions"}

\* C25: a run that has started ends, and it ends after the timesteps
\* 0, 1, ..., time_horizon - 1 have been processed in this order, each
\* once: the first timestep is 0, a timestep is left only by the removal
\* of the interactions and only for the next one, while the timestep is
\* being processed the counter does not change, the run ends only out of
\* timestep time_horizon - 1, and the timeline is then written for every
\* node through timestep time_horizon.
C25_RunTerminates ==
  /\ [](InTimestep => <>(pc = "get_results"))
  /\ [][/\ (pc = "run_single" /\ pc' = "add_interactions") => curr_time' = 0
        /\ (InTimestep /\ pc # "remove_interactions") =>
             (curr_time' = curr_time /\ InTimestep')
        /\ pc = "remove_interactions" =>
             \/ /\ curr_time + 1 < time_horizon
                /\ curr_time' = curr_time + 1
                /\ pc' = "add_interactions"
                /\ idx' = 0
             \/ /\ curr_time + 1 = time_horizon
                /\ curr_time' = curr_time
                /\ pc' = "get_results"
                /\ \A t \in 0..time_horizon : DOMAIN states_dict'[t] = Nodes]_vars

\* a run of eight timesteps has ended after timestep 7
C25_Witness ==
  /\ pc = "get_results"
  /\ time_horizon = 8
  /\ curr_time = 7
  /\ \A t \in 0..8 : DOMAIN states_dict[t] = Nodes

\* the positions of the underscores of a behaviour string
Underscores(str) == {i \in 1..Len(str) : str[i] = "_"}

LastUnderscore(str) == CHOOSE q \in Underscores(str) : \A i \in Underscores(str) : i <= q

LastButOneUnderscore(str) ==
  CHOOSE p \in Underscores(str) \ {LastUnderscore(str)} :
    \A i \in Underscores(str) \ {LastUnderscore(str)} : i <= p

\* the integer a run of one digit denotes
DigitValue(digits) ==
  CHOOSE d \in 0..9 : digits = <<<<"0", "1", "2", "3", "4", "5", "6", "7", "8", "9">>[d + 1]>>

\* the entry that the behaviour string stands for: what follows the last
\* underscore is num_people, what stands between the last two is visits,
\* everything before, underscores included, is the name
EntryOf(str) ==
  [name |-> SubSeq(str, 1, LastButOneUnderscore(str) - 1),
   visits |-> DigitValue(SubSeq(str, LastButOneUnderscore(str) + 1,
                                LastUnderscore(str) - 1)),
   num_people |-> DigitValue(SubSeq(str, LastUnderscore(str) + 1, Len(str)))]

A00 == <<"a", "_", "0", "_", "0">>
B11 == <<"b", "_", "1", "_", "1">>
FoodShopping23 == <<"food", "_", "shopping", "_", "2", "_", "3">>

\* C26: the conversion maps every behaviour string name_visits_people to
\* an entry name -> {visits, num_people} whose integers are the last two
\* fields and whose name is everything before them, underscores included;
\* of two strings with the same name the later one gives the entry.  The
\* dict has no other entry, and "a_0_0", "b_1_1" and "food_shopping_2_3"
\* give a -> {0, 0}, b -> {1, 1} and food_shopping -> {2, 3}.
C26_BehaviourDict ==
  /\ RunUnderWay =>
       /\ \A i \in 1..Len(behaviours) :
            (\A j \in (i + 1)..Len(behaviours) :
               EntryOf(behaviours[j]).name # EntryOf(behaviours[i]).name)
            => \E k \in 1..Len(behaviours_dict) :
                 behaviours_dict[k] = EntryOf(behaviours[i])
       /\ \A k \in 1..Len(behaviours_dict) :
            /\ \E i \in 1..Len(behaviours) :
                 behaviours_dict[k] = EntryOf(behaviours[i])
            /\ \A l \in 1..Len(behaviours_dict) :
                 behaviours_dict[l].name = behaviours_dict[k].name => l = k
  /\ ConvertBehavioursToDict(<<A00, B11, FoodShopping23>>)
       = <<[name |-> <<"a">>, visits |-> 0, num_people |-> 0],
           [name |-> <<"b">>, visits |-> 1, num_people |-> 1],
           [name |-> <<"food", "_", "shopping">>, visits |-> 2, num_people |-> 3]>>

\* food_shopping_7_1 and party_7_1 have been converted
C26_Witness ==
  /\ RunUnderWay
  /\ behaviours = <<FoodShopping71, Party71>>
  /\ behaviours_dict =
       <<[name |-> <<"food", "_", "shopping">>, visits |-> 7, num_people |-> 1],
         [name |-> <<"party">>, visits |-> 7, num_people |-> 1]>>

\* C27 as stated: within one timestep the progression pass writes the next
\* state only of nodes whose state at t is not S and the infection pass
\* only of nodes whose state at t is S, so that the two passes never write
\* the same node.
C27_DisjointWrites ==
  [][LET written == {v \in DOMAIN states_dict'[curr_time + 1] :
                       \/ v \notin DOMAIN states_dict[curr_time + 1]
                       \/ states_dict'[curr_time + 1][v] # states_dict[curr_time + 1][v]}
     IN /\ pc = "do_progression" =>
             \A v \in written : states_dict[curr_time][v] # "S"
        /\ pc = "do_infection" =>
             \A v \in written : states_dict[curr_time][v] = "S"]_vars

\* C27: within one timestep the progression pass writes the next state of
\* every node, one per call, copying the state of a node in S, D or R; the
\* infection pass then writes only nodes whose state at t is S, over the S
\* that the progression pass has copied, and turns them to E.  An exposed
\* node is so written by both passes, and the order counts: the progression
\* of the node, were it done after the infection, would put S back.
C27_ProgressionThenInfection ==
  [][LET next_time == curr_time + 1
         written == {v \in DOMAIN states_dict'[next_time] :
                       \/ v \notin DOMAIN states_dict[next_time]
                       \/ states_dict'[next_time][v] # states_dict[next_time][v]}
     IN /\ pc = "do_progression" =>
             /\ idx \notin DOMAIN states_dict[next_time]
             /\ DOMAIN states_dict'[next_time] = DOMAIN states_dict[next_time] \cup {idx}
             /\ written = {idx}
             /\ states_dict[curr_time][idx] \in {"S", "D", "R"} =>
                  states_dict'[next_time][idx] = states_dict[curr_time][idx]
        /\ pc = "do_infection" =>
             /\ DOMAIN states_dict[next_time] = Nodes
             /\ \A v \in written :
                  /\ states_dict[curr_time][v] = "S"
                  /\ states_dict[next_time][v] = "S"
                  /\ states_dict'[next_time][v] = "E"
                  /\ Progressed(states_dict', curr_time, v, age_group[v], 0)[next_time][v]
                       = "S"]_vars

\* the infection pass has turned to E a node that the progression pass
\* had written as S
C27_Witness ==
  /\ pc \in {"do_infection", "remove_interactions"}
  /\ DOMAIN luck # {}
  /\ \E v \in Nodes :
       /\ states_dict[curr_time][v] = "S"
       /\ states_dict[curr_time + 1][v] = "E"

\* C28: the passes of timestep t decide on the states recorded at t.  The
\* infection handler of a node that is not I or A at t does nothing, so a
\* node exposed in this timestep (S at t, E at t+1) infects nobody; the
\* handler of a node that is I or A at t draws for each neighbour that is
\* S at t and exposes it when the draw is at most the weight, whatever the
\* progression pass has written for the node at t+1, and it changes no
\* node that is not S at t.  The progression handler copies a state at t
\* in S, D or R and otherwise writes a target of the state at t.
C28_DecidesOnStatesAtT ==
  [][LET next_time == curr_time + 1
         state == states_dict[curr_time][idx]
     IN /\ pc = "do_infection" =>
             /\ state \notin {"I", "A"} => UNCHANGED <<states_dict, luck>>
             /\ state \in {"I", "A"} =>
                  /\ \A nb \in Neighbors(idx) :
                       states_dict[curr_time][nb] = "S" =>
                         /\ <<idx, nb>> \in DOMAIN luck'
                         /\ luck'[<<idx, nb>>] <= edges[{idx, nb}].weight =>
                              states_dict'[next_time][nb] = "E"
                         /\ luck'[<<idx, nb>>] > edges[{idx, nb}].weight =>
                              states_dict'[next_time][nb] = states_dict[next_time][nb]
                  /\ \A v \in Nodes :
                       (states_dict[curr_time][v] # "S" \/ v \notin Neighbors(idx)) =>
                         states_dict'[next_time][v] = states_dict[next_time][v]
        /\ pc = "do_progression" =>
             /\ state \in {"S", "D", "R"} => states_dict'[next_time][idx] = state
             /\ state \notin {"S", "D", "R"} =>
                  \E k \in 1..Len(state_transitions[state]) :
                    states_dict'[next_time][idx] = state_transitions[state][k].target]_vars

\* at the end of the passes of a timestep: m, infectious at t, has been
\* moved on by the progression pass and has then exposed its neighbour v,
\* whose handler came later and which has, at weight 1, left its own
\* susceptible neighbour w untouched
C28_Witness ==
  /\ pc = "remove_interactions"
  /\ \E m, v, w \in Nodes :
       /\ m < v
       /\ states_dict[curr_time][m] \in {"I", "A"}
       /\ states_dict[curr_time + 1][m] # states_dict[curr_time][m]
       /\ v \in Neighbors(m)
       /\ states_dict[curr_time][v] = "S"
       /\ states_dict[curr_time + 1][v] = "E"
       /\ w \in Neighbors(v) \ Neighbors(m)
       /\ w # m
       /\ edges[{v, w}].weight = 100
       /\ states_dict[curr_time][w] = "S"
       /\ states_dict[curr_time + 1][w] = "S"

\* C29: the add-interactions handler of a node leaves every edge of the
\* graph as it is, the pairs it asks to join that are joined already
\* included: a lattice edge keeps its weight and is not marked transient,
\* and so is still there, as constructed, after the removal; a transient
\* edge keeps its attributes.
C29_JoinedPairUntouched ==
  [][/\ pc = "add_interactions" =>
          \A e \in DOMAIN edges : e \in DOMAIN edges' /\ edges'[e] = edges[e]
     /\ pc \in {"add_interactions", "remove_interactions"} =>
          \A e \in DOMAIN lattice :
            /\ e \in DOMAIN edges'
            /\ edges'[e] = lattice[e]
            /\ ~edges'[e].interaction_edge]_vars

\* three people who all meet: node 1 has asked to be joined to node 0, to
\* which a transient edge joined it already, and to node 2, its lattice
\* neighbour
C29_Witness ==
  /\ pc = "add_interactions"
  /\ idx = 2
  /\ Len(location) = 3
  /\ behaviours = <<Party72>>
  /\ {0, 1} \in InteractionEdges
  /\ {1, 2} \in DOMAIN lattice
  /\ edges[{1, 2}] = lattice[{1, 2}]
  /\ visits_done[1][<<"party">>] > 0

\* C30: the progression handler of a node that is E, A, I or H at t makes
\* one draw u and writes, as the state at t+1, a target that the table
\* lists for the state at t; when the cumulative probability of some
\* target, for the age group of the node and in the order of the table,
\* is at least u, the state written is the first such target.
C30_FirstBucketReached ==
  [][(pc = "do_progression" /\ states_dict[curr_time][idx] \in {"E", "A", "I", "H"}) =>
       LET distrib == state_transitions[states_dict[curr_time][idx]]
           age == age_group[idx]
           u == Get(max_sum')
           cumulative(k) == SumSeq([j \in 1..k |-> distrib[j].prob[age]])
           reached == {k \in 1..Len(distrib) : cumulative(k) >= u}
           chosen == states_dict'[curr_time + 1][idx]
       IN /\ max_sum' # None
          /\ \E k \in 1..Len(distrib) : chosen = distrib[k].target
          /\ reached # {} =>
               chosen = distrib[CHOOSE k \in reached : \A j \in reached : k <= j].target]_vars

\* node 0, of age group a and asymptomatic, has drawn 0.99: the first
\* target, I, has cumulative probability 0.5 and the second, R, is chosen
C30_Witness ==
  /\ pc = "do_progression"
  /\ idx = 1
  /\ state_transitions = MixTable
  /\ age_group[0] = "a"
  /\ max_sum = Some(99)
  /\ states_dict[curr_time][0] = "A"
  /\ states_dict[curr_time + 1][0] = "R"

\* the one-letter state names in the order of Python's string comparison
Alphabetical == <<"A", "D", "E", "H", "I", "R", "S">>

Before(v, w) ==
  \E i, j \in 1..Len(Alphabetical) :
    i <= j /\ Alphabetical[i] = v /\ Alphabetical[j] = w

\* C31: when the progression handler of a node draws a value that the
\* cumulative probability over all targets of the node's state does not
\* reach, the run goes on: the node gets a state at t+1, and it is the
\* lexicographically smallest target of the table entry.
C31_FallbackSmallestTarget ==
  [][(pc = "do_progression" /\ states_dict[curr_time][idx] \in {"E", "A", "I", "H"}) =>
       LET distrib == state_transitions[states_dict[curr_time][idx]]
           total == SumSeq([j \in 1..Len(distrib) |-> distrib[j].prob[age_group[idx]]])
           targets == {distrib[k].target : k \in 1..Len(distrib)}
       IN (max_sum' # None /\ Get(max_sum') > total) =>
            /\ pc' \in {"do_progression", "do_infection"}
            /\ idx \in DOMAIN states_dict'[curr_time + 1]
            /\ states_dict'[curr_time + 1][idx] \in targets
            /\ \A w \in targets : Before(states_dict'[curr_time + 1][idx], w)]_vars

\* node 0, of age group b and hospitalised, has drawn 0.99 against targets
\* R and D that sum to 0.98: D, the smaller name and the later in the
\* table, is its next state
C31_Witness ==
  /\ pc = "do_progression"
  /\ idx = 1
  /\ state_transitions = MixTable
  /\ age_group[0] = "b"
  /\ max_sum = Some(99)
  /\ states_dict[curr_time][0] = "H"
  /\ states_dict[curr_time + 1][0] = "D"

\* C32: a node that the timeline records in D or in R at a timestep is
\* recorded in the same state at every later timestep written so far, at
\* every moment of the run and so at its end.
C32_DeadAndRecoveredStay ==
  RunUnderWay =>
    \A t \in 0..time_horizon : \A u \in t..time_horizon :
      \A v \in DOMAIN states_dict[t] \cap DOMAIN states_dict[u] :
        states_dict[t][v] \in {"D", "R"} => states_dict[u][v] = states_dict[t][v]

\* at the end of a run: a node recovered at timestep t, next to a node
\* that was infectious at t, is recovered at the horizon, and so far from
\* t that it would have been through a second infection
C32_Witness ==
  /\ pc = "get_results"
  /\ \E v \in Nodes : \E m \in Neighbors(v) : \E t \in 0..(time_horizon - 5) :
       /\ states_dict[t][v] = "R"
       /\ states_dict[t][m] \in {"I", "A"}
       /\ states_dict[time_horizon][v] = "R"

\* C33: whenever a graph is in place, every edge of it, lattice edge or
\* transient edge, has the infection rate of the graph as its weight.
C33_UniformWeight ==
  GraphBuilt => \A e \in DOMAIN edges : edges[e].weight = Get(infection_rate)

\* in a timestep of a run at infection rate 0.5 the graph holds a lattice
\* edge and a transient edge
C33_Witness ==
  /\ pc = "do_infection"
  /\ infection_rate = Some(50)
  /\ \E e \in DOMAIN edges : ~edges[e].interaction_edge /\ edges[e].weight = 50
  /\ \E e \in DOMAIN edges : edges[e].interaction_edge /\ edges[e].weight = 50

\* C34: no step of the loop over time changes the static part of the
\* graph: the nodes, their locations and age groups and the
\* CloseNodesMatrix stay as they are, the edges not marked transient are
\* at every moment the lattice edges as constructed, and when the run ends
\* the graph has these edges and no other.
C34_StaticGraphKept ==
  [][InTimestep =>
       /\ UNCHANGED <<location, age_group, close_nodes_arr, lattice>>
       /\ {e \in DOMAIN edges' : ~edges'[e].interaction_edge} = DOMAIN lattice
       /\ \A e \in DOMAIN lattice : edges'[e] = lattice[e]
       /\ pc' = "get_results" => edges' = lattice]_vars

\* a run of two timesteps, in each of which all three people met and an
\* edge outside the lattice joined two of them, has ended
C34_Witness ==
  /\ pc = "get_results"
  /\ behaviours = <<Party72>>
  /\ Len(location) = 3
  /\ time_horizon = 2
  /\ Cardinality(DOMAIN lattice) = 2
  /\ edges = lattice
  /\ \A v \in Nodes : visits_done[v][<<"party">>] = 2

\* C35: in the averaged series that run_multiple returns, every count of
\* every compartment, at every reporting step, is an integer from 0 to
\* population_size.
C35_RepairedCountsInRange ==
  pc = "done" =>
    \A state \in StateSet : \A i \in 1..Len(averaged[state]) :
      averaged[state][i] \in 0..PopulationSize

\* C36: at infection rate 0, where every edge has weight 0, no node leaves
\* S in a run, whatever the draws of the infection pass are, a draw of 0
\* included: a node susceptible at timestep 0 is susceptible at every
\* timestep written, and the number of susceptible nodes is that of
\* timestep 0 throughout.
C36_NoSpreadAtRateZero ==
  (RunUnderWay /\ infection_rate = Some(0)) =>
    \A t \in 0..WrittenThrough :
      /\ \A v \in Nodes : states_dict[0][v] = "S" => states_dict[t][v] = "S"
      /\ CountAt(t, "S") = CountAt(0, "S")

\* the orders in which the nodes of the graph can be visited
VisitOrders ==
  {order \in [1..Len(location) -> Nodes] :
     \A i, j \in 1..Len(location) : i # j => order[i] # order[j]}

\* the order in which graph.nodes yields the nodes
NodeOrder == [i \in 1..Len(location) |-> i - 1]

\* the nodes for which the progression handler makes a draw
DrawingNodes(sd, time) == {v \in Nodes : sd[time][v] \notin {"R", "D", "S"}}

\* the timeline after the progression handler has been called for the
\* first k nodes of order, draws[node] being the draw made for node if
\* one is made
RECURSIVE ProgressionPass(_, _, _, _, _)
ProgressionPass(sd, time, order, draws, k) ==
  IF k = 0 THEN sd
  ELSE Progressed(ProgressionPass(sd, time, order, draws, k - 1), time,
                  order[k], age_group[order[k]],
                  IF order[k] \in DOMAIN draws THEN draws[order[k]] ELSE 0)

\* the timeline after the infection handler has been called for the first
\* k nodes of order, lucks[<<node, nb>>] being the draw node makes for its
\* susceptible neighbour nb; no draw is made for another neighbour
RECURSIVE InfectionPass(_, _, _, _, _)
InfectionPass(sd, time, order, lucks, k) ==
  IF k = 0 THEN sd
  ELSE LET before == InfectionPass(sd, time, order, lucks, k - 1)
           node == order[k]
       IN IF sd[time][node] \in {"I", "A"}
          THEN InfectNeighbours(before, time, node, Neighbors(node),
                                [nb \in Neighbors(node) |->
                                   IF <<node, nb>> \in DOMAIN lucks
                                   THEN lucks[<<node, nb>>] ELSE 0])
          ELSE before

\* the pairs of a node infectious at time and a susceptible neighbour
DrawnPairs(sd, time) ==
  {p \in Nodes \X Nodes : /\ sd[time][p[1]] \in {"I", "A"}
                          /\ p[2] \in Neighbors(p[1])
                          /\ sd[time][p[2]] = "S"}

\* C37: on one graph, from the same states at t and with the same draw for
\* every node in the progression pass and for every pair of an infectious
\* node and a neighbour in the infection pass, the states at t+1 are the
\* same in whatever order the nodes are visited inside the progression
\* pass and inside the infection pass; after the infection pass a
\* susceptible node is exposed exactly if the draw of one of its infectious
\* neighbours did not exceed the weight, so a failed draw of one neighbour
\* does not take back the exposure written for another.
C37_VisitOrderIrrelevant ==
  /\ (pc = "do_progression" /\ idx = 0) =>
       \A draws \in [DrawingNodes(states_dict, curr_time) -> DrawValues] :
         LET after == ProgressionPass(states_dict, curr_time, NodeOrder, draws,
                                      Len(location))
         IN \A order \in VisitOrders :
              ProgressionPass(states_dict, curr_time, order, draws, Len(location))
                = after
  /\ (pc = "do_infection" /\ idx = 0) =>
       \A lucks \in [DrawnPairs(states_dict, curr_time) -> DrawValues] :
         LET after == InfectionPass(states_dict, curr_time, NodeOrder, lucks,
                                    Len(location))
         IN /\ \A order \in VisitOrders :
                 InfectionPass(states_dict, curr_time, order, lucks, Len(location))
                   = after
            /\ \A v \in Nodes :
                 states_dict[curr_time][v] = "S" =>
                   (after[curr_time + 1][v] = "E"
                      <=> \E p \in DOMAIN lucks :
                            /\ p[2] = v
                            /\ lucks[p] <= edges[{p[1], p[2]}].weight)

\* the infection pass of a timestep is about to start at infection rate
\* 0.5 with a susceptible node that has two infectious neighbours, so that
\* the draw of the one can fail where the draw of the other succeeds
C37_Witness ==
  /\ pc = "do_infection"
  /\ idx = 0
  /\ infection_rate = Some(50)
  /\ \E v, m, w \in Nodes :
       /\ m < v
       /\ v < w
       /\ states_dict[curr_time][v] = "S"
       /\ {m, w} \subseteq Neighbors(v)
       /\ states_dict[curr_time][m] \in {"I", "A"}
       /\ states_dict[curr_time][w] \in {"I", "A"}

\* no node is exposed, asymptomatic, infected or in hospital at timestep t
Extinct(t) == \A v \in Nodes : states_dict[t][v] \in {"S", "D", "R"}

\* C38: if the timeline records no node in E, A, I or H at a timestep t,
\* then at every later timestep written the state of every node is its
\* state at t, whatever transient edges the behaviours add to the graph.
C38_ExtinctionAbsorbing ==
  RunUnderWay =>
    \A t \in 0..WrittenThrough :
      Extinct(t) => \A u \in t..WrittenThrough : states_dict[u] = states_dict[t]

\* the infection was extinct at timestep t with a susceptible node left,
\* in the next timestep a behaviour has joined a susceptible node to
\* another node by a transient edge, and the passes over the nodes of that
\* timestep are complete
C38_Witness ==
  /\ pc = "remove_interactions"
  /\ curr_time >= 1
  /\ Extinct(curr_time)
  /\ ~Extinct(curr_time - 1)
  /\ \E e \in InteractionEdges : \E v \in e :
       /\ states_dict[curr_time][v] = "S"
       /\ states_dict[curr_time + 1][v] = "S"
       /\ edges[e].weight > 0

====
